---------------------------- MODULE Spec2Model ----------------------------
(***************************************************************************)
(* Payment system prototype (src/main.go): the in-memory account ledger    *)
(* (InMemoryAccountRepository), the Account entity and the IBAN codec.     *)
(*                                                                         *)
(* Money is counted in thousandths of the currency unit ("mills"), so one  *)
(* cent is Cent mills and an amount such as 0.004 is the integer 4.        *)
(* Arithmetic is exact decimal arithmetic; NaN and the infinities of       *)
(* float64 are outside the model.                                          *)
(* Strings are sequences of one-character strings.                         *)
(***************************************************************************)
EXTENDS Integers, Sequences, FiniteSets, TLC

VARIABLES
    repo,      \* the InMemoryAccountRepository
    lastMove,  \* the last money operation that returned no error
    emitted,   \* what the successful EmitMoney calls added so far
    moves,     \* how many money operations returned no error so far
    Mutex,     \* repo.Mutex: 0 when unlocked, else the goroutine holding it
    thr,       \* the goroutines calling the ledger concurrently
    opened     \* the accounts the OpenAccount calls returned so far

vars == <<repo, lastMove, emitted, moves, Mutex, thr, opened>>

(***************************************************************************)
(* Enumerations (main.go 40-133)                                           *)
(***************************************************************************)
NoError == "nil"
AccountDoesNotExistError == "AccountDoesNotExistError"
AccountIsBlockedError == "AccountIsBlockedError"
InsufficientAccountBalanceError == "InsufficientAccountBalanceError"
AccountTypeMismatchError == "AccountTypeMismatchError"
AccountIbanMismatchError == "AccountIbanMismatchError"
NegativeAmountError == "NegativeAmountError"
InvalidIbanError == "InvalidIbanError"
AccountCreationError == "AccountCreationError"
AccountDetailsJsonError == "AccountDetailsJsonError"
MoneyTransferJsonError == "MoneyTransferJsonError"
\* a nil pointer dereference: the Go runtime panics
Panic == "panic"

Active == "Active"
Blocked == "Blocked"

Ordinary == "Ordinary"
MonetaryEmission == "MonetaryEmission"
MonetaryDestruction == "MonetaryDestruction"

(***************************************************************************)
(* Strings                                                                 *)
(***************************************************************************)
\* a Replace that replaces nothing
KeepSpaces(s) == s

\* strings.Replace(s, " ", "", -1)
StripSpaces(s) == SelectSeq(s, LAMBDA c : c # " ")

Repeat(c, n) == [i \in 1..n |-> c]

DigitChars == <<"0", "1", "2", "3", "4", "5", "6", "7", "8", "9">>

LetterChars ==
    <<"A", "B", "C", "D", "E", "F", "G", "H", "I", "J", "K", "L", "M",
      "N", "O", "P", "Q", "R", "S", "T", "U", "V", "W", "X", "Y", "Z">>

IndexIn(seq, c) == CHOOSE i \in 1..Len(seq) : seq[i] = c

IsDigit(c) == \E i \in 1..Len(DigitChars) : DigitChars[i] = c

IsUpperLetter(c) == \E i \in 1..Len(LetterChars) : LetterChars[i] = c

\* strconv.Atoi(string(number[i])) with the error dropped: 0 for a non-digit
Atoi(c) == IF IsDigit(c) THEN IndexIn(DigitChars, c) - 1 ELSE 0

\* strconv.Itoa(n) for 0 <= n <= 99
Itoa(n) ==
    IF n < 10 THEN <<DigitChars[n + 1]>>
    ELSE <<DigitChars[(n \div 10) + 1], DigitChars[(n % 10) + 1]>>

\* fmt.Sprintf("%02d", n) for 0 <= n <= 99
Sprintf02d(n) == <<DigitChars[(n \div 10) + 1], DigitChars[(n % 10) + 1]>>

(***************************************************************************)
(* IBAN codec (main.go 186-303)                                            *)
(***************************************************************************)
RECURSIVE ConvertFrom(_, _)
\* the loop of ConvertIbanToNumericForm from position i on:
\* [ok, str]; ok is FALSE when an invalid character is met
ConvertFrom(iban, i) ==
    IF i > Len(iban) THEN [ok |-> TRUE, str |-> <<>>]
    ELSE LET c == iban[i]
             rest == ConvertFrom(iban, i + 1)
         IN  IF IsUpperLetter(c)
               THEN [ok |-> rest.ok,
                     str |-> Itoa(IndexIn(LetterChars, c) - 1 + 10) \o rest.str]
             ELSE IF IsDigit(c)
               THEN [ok |-> rest.ok, str |-> <<c>> \o rest.str]
             ELSE [ok |-> FALSE, str |-> <<>>]

ConvertIbanToNumericForm(iban) ==
    LET r == ConvertFrom(iban, 1)
    IN  IF r.ok THEN [str |-> r.str, err |-> NoError]
        ELSE [str |-> <<>>, err |-> InvalidIbanError]

RECURSIVE Mod97From(_, _, _)
Mod97From(number, i, remainder) ==
    IF i > Len(number) THEN remainder
    ELSE Mod97From(number, i + 1, (remainder * 10 + Atoi(number[i])) % 97)

\* a Mod97 whose loop starts at the second digit
Mod97FromSecondDigit(number) == Mod97From(number, 2, 0)

Mod97(number) == Mod97From(number, 1, 0)

IbanLength == 28

\* an IsValidIban without the mod-97 verification
IsValidIbanAnyChecksum(ibanIn) ==
    LET iban == StripSpaces(ibanIn)
    IN  Len(iban) = IbanLength /\ ConvertIbanToNumericForm(iban).err = NoError

IsValidIban(ibanIn) ==
    LET iban == StripSpaces(ibanIn)
    IN  IF Len(iban) # IbanLength THEN FALSE
        ELSE LET rearranged == SubSeq(iban, 1, 4) \o SubSeq(iban, 5, Len(iban))
                 conv == ConvertIbanToNumericForm(rearranged)
             IN  IF conv.err # NoError THEN FALSE
                 ELSE Mod97(conv.str) = 1

CalculateIbanCheckDigits(ibanNumeric) == Sprintf02d(98 - Mod97(ibanNumeric))

\* GenerateBelarusianIban with the random BBAN that GenerateRandomDigits drew
GenerateBelarusianIban(bban) ==
    LET countryPrefix == <<"B", "Y">>
        checkDigitsPlaceholder == <<"0", "0">>
        conv == ConvertIbanToNumericForm(countryPrefix \o checkDigitsPlaceholder \o bban)
    IN  IF conv.err # NoError THEN [iban |-> <<>>, err |-> conv.err]
        ELSE [iban |-> countryPrefix \o CalculateIbanCheckDigits(conv.str) \o bban,
              err |-> NoError]

\* what GenerateRandomDigits(24) can draw in the model: a few tails after zeros
BbanTails == {<<"5", "8">>, <<"1", "5", "5">>, <<"7">>}

BbanLength == 24

BbanChoices == {Repeat("0", BbanLength - Len(t)) \o t : t \in BbanTails}

\* The results GenerateValidBelarusianIban can return: the loop ends with the
\* first candidate that IsValidIban accepts, or with InvalidIbanError once the
\* attempt counter has passed its ceiling.
GenerateValidBelarusianIban ==
    {[iban |-> GenerateBelarusianIban(b).iban, err |-> NoError] :
        b \in {c \in BbanChoices : GenerateBelarusianIban(c).err = NoError
                                   /\ IsValidIban(GenerateBelarusianIban(c).iban)}}
    \cup {[iban |-> <<>>, err |-> InvalidIbanError]}

(***************************************************************************)
(* Account (main.go 137-184)                                               *)
(***************************************************************************)
Cent == 10

Abs(x) == IF x < 0 THEN -x ELSE x

\* a round that drops the digits after the cents: math.Trunc for math.Round
roundTowardZero(amount) ==
    LET q == Abs(amount) \div Cent
    IN  IF amount < 0 THEN -(q * Cent) ELSE q * Cent

\* math.Round(amount*100) / 100: to the nearest cent, halves away from zero
round(amount) ==
    LET q == (2 * Abs(amount) + Cent) \div (2 * Cent)
    IN  IF amount < 0 THEN -(q * Cent) ELSE q * Cent

\* a roundAndExtractFractions that returns no fractions
roundAndDropFractions(amount) == [r |-> round(amount), f |-> 0]

roundAndExtractFractions(amount) ==
    LET rounded == round(amount)
    IN  [r |-> rounded, f |-> amount - rounded]

\* a NewAccount that adds a cent to the opening balance
NewAccountTopUp(iban, s, t, b) ==
    [Iban |-> iban, Status |-> s, Type |-> t,
     Balance |-> roundAndExtractFractions(b).r + Cent,
     Fractions |-> roundAndExtractFractions(b).f]

NewAccount(iban, s, t, b) ==
    LET rf == roundAndExtractFractions(b)
    IN  [Iban |-> iban, Status |-> s, Type |-> t, Balance |-> rf.r, Fractions |-> rf.f]

\* a Block that flips the status
BlockToggle(acc) ==
    [acc EXCEPT !.Status = IF @ = Blocked THEN Active ELSE Blocked]

Block(acc) == [acc EXCEPT !.Status = Blocked]

\* an Activate that leaves the status as it is
ActivateKeepsStatus(acc) == acc

Activate(acc) == [acc EXCEPT !.Status = Active]

\* Deduct without its Fractions statement
DeductBalanceOnly(acc, amount) ==
    [acc EXCEPT !.Balance = round(acc.Balance - roundAndExtractFractions(amount).r)]

Deduct(acc, amount) ==
    LET rf == roundAndExtractFractions(amount)
    IN  [acc EXCEPT !.Balance = round(acc.Balance - rf.r),
                    !.Fractions = acc.Fractions - rf.f]

\* Add without its Fractions statement
AddBalanceOnly(acc, amount) ==
    [acc EXCEPT !.Balance = round(acc.Balance + roundAndExtractFractions(amount).r)]

\* an Add that adds the amount as it is to Balance
AddUnrounded(acc, amount) == [acc EXCEPT !.Balance = acc.Balance + amount]

Add(acc, amount) ==
    LET rf == roundAndExtractFractions(amount)
    IN  [acc EXCEPT !.Balance = round(acc.Balance + rf.r),
                    !.Fractions = acc.Fractions + rf.f]

(***************************************************************************)
(* InMemoryAccountRepository (main.go 375-670)                             *)
(*                                                                         *)
(* A repository value r is [EmissionAccount, DestructionAccount, Accounts, *)
(* heap]: the two special-account pointers, the map from IBAN to pointer,  *)
(* and the Account objects the pointers refer to.  Every operation is an   *)
(* operator from the repository (and the arguments) to the repository it   *)
(* leaves and the error it returns; the mutex makes the body one step.     *)
(***************************************************************************)
Nil == <<>>

\* the objects allocated by the constructor
EmissionPtr == <<"emissionAcc">>

DestructionPtr == <<"destructionAcc">>

\* the object OpenAccount allocates for a fresh IBAN
NewPtr(iban) == <<"acc">> \o iban

MapPut(m, k, v) == [x \in (DOMAIN m) \cup {k} |-> IF x = k THEN v ELSE m[x]]

\* m[k] of a Go map of pointers: nil for a missing key
MapGet(m, k) == IF k \in DOMAIN m THEN m[k] ELSE Nil

\* a constructor whose map literal has the strings as they were given for keys
NewInMemoryAccountRepositoryKeyedAsGiven(eIbanIn, dIbanIn) ==
    LET emissionAcc == NewAccount(StripSpaces(eIbanIn), Active, MonetaryEmission, 0)
        destructionAcc == NewAccount(StripSpaces(dIbanIn), Active, MonetaryDestruction, 0)
    IN  [EmissionAccount |-> EmissionPtr,
         DestructionAccount |-> DestructionPtr,
         Accounts |-> MapPut(MapPut(<<>>, eIbanIn, EmissionPtr), dIbanIn, DestructionPtr),
         heap |-> MapPut(MapPut(<<>>, EmissionPtr, emissionAcc),
                         DestructionPtr, destructionAcc)]

NewInMemoryAccountRepository(eIbanIn, dIbanIn) ==
    LET eIban == StripSpaces(eIbanIn)
        dIban == StripSpaces(dIbanIn)
        emissionAcc == NewAccount(eIban, Active, MonetaryEmission, 0)
        destructionAcc == NewAccount(dIban, Active, MonetaryDestruction, 0)
        accounts == MapPut(MapPut(<<>>, eIban, EmissionPtr), dIban, DestructionPtr)
    IN  [EmissionAccount |-> EmissionPtr,
         DestructionAccount |-> DestructionPtr,
         Accounts |-> accounts,
         heap |-> MapPut(MapPut(<<>>, EmissionPtr, emissionAcc),
                         DestructionPtr, destructionAcc)]

accountExists(r, iban) ==
    IF r.EmissionAccount # Nil /\ r.heap[r.EmissionAccount].Iban = iban THEN TRUE
    ELSE IF r.DestructionAccount # Nil /\ r.heap[r.DestructionAccount].Iban = iban THEN TRUE
    ELSE iban \in DOMAIN r.Accounts

Fail(r, e) == [repo |-> r, err |-> e]

Ok(r) == [repo |-> r, err |-> NoError]

RetrieveEmissionAccountIban(r) ==
    IF r.EmissionAccount = Nil
      THEN [iban |-> <<>>, err |-> AccountDoesNotExistError]
    ELSE IF r.heap[r.EmissionAccount].Type # MonetaryEmission
      THEN [iban |-> <<>>, err |-> AccountTypeMismatchError]
    ELSE [iban |-> r.heap[r.EmissionAccount].Iban, err |-> NoError]

\* a RetrieveDestructionAccountIban that reads the emission account
RetrieveDestructionAccountIbanOfEmission(r) ==
    [iban |-> r.heap[r.EmissionAccount].Iban, err |-> NoError]

RetrieveDestructionAccountIban(r) ==
    IF r.DestructionAccount = Nil
      THEN [iban |-> <<>>, err |-> AccountDoesNotExistError]
    ELSE IF r.heap[r.DestructionAccount].Type # MonetaryDestruction
      THEN [iban |-> <<>>, err |-> AccountTypeMismatchError]
    ELSE [iban |-> r.heap[r.DestructionAccount].Iban, err |-> NoError]

\* EmitMoney without its amount check
EmitMoneyAnyAmount(r, amount) ==
    IF r.EmissionAccount = Nil THEN Fail(r, AccountDoesNotExistError)
    ELSE IF r.heap[r.EmissionAccount].Type # MonetaryEmission
      THEN Fail(r, AccountTypeMismatchError)
    ELSE IF r.heap[r.EmissionAccount].Status = Blocked
      THEN Fail(r, AccountIsBlockedError)
    ELSE Ok([r EXCEPT !.heap[r.EmissionAccount] = Add(@, amount)])

\* an EmitMoney with a ceiling on the balance of the emission account
EmitMoneyCapped(r, amount) ==
    IF r.EmissionAccount = Nil THEN Fail(r, AccountDoesNotExistError)
    ELSE IF r.heap[r.EmissionAccount].Type # MonetaryEmission
      THEN Fail(r, AccountTypeMismatchError)
    ELSE IF r.heap[r.EmissionAccount].Status = Blocked
      THEN Fail(r, AccountIsBlockedError)
    ELSE IF amount < 0 THEN Fail(r, NegativeAmountError)
    ELSE IF r.heap[r.EmissionAccount].Balance + round(amount) > 1000 * 1000 * Cent
      THEN Fail(r, NegativeAmountError)
    ELSE Ok([r EXCEPT !.heap[r.EmissionAccount] = Add(@, amount)])

\* an EmitMoney without the check of the emission account's status
EmitMoneyAnyStatus(r, amount) ==
    IF r.EmissionAccount = Nil THEN Fail(r, AccountDoesNotExistError)
    ELSE IF r.heap[r.EmissionAccount].Type # MonetaryEmission
      THEN Fail(r, AccountTypeMismatchError)
    ELSE IF amount < 0 THEN Fail(r, NegativeAmountError)
    ELSE Ok([r EXCEPT !.heap[r.EmissionAccount] = Add(@, amount)])

EmitMoney(r, amount) ==
    IF r.EmissionAccount = Nil THEN Fail(r, AccountDoesNotExistError)
    ELSE IF r.heap[r.EmissionAccount].Type # MonetaryEmission
      THEN Fail(r, AccountTypeMismatchError)
    ELSE IF r.heap[r.EmissionAccount].Status = Blocked
      THEN Fail(r, AccountIsBlockedError)
    ELSE IF amount < 0 THEN Fail(r, NegativeAmountError)
    ELSE Ok([r EXCEPT !.heap[r.EmissionAccount] = Add(@, amount)])

\* the checks of DestructMoney with a balance that must exceed the amount
DestructMoneyCheckStrict(r, ibanIn, amount) ==
    LET iban == StripSpaces(ibanIn)
        acc == MapGet(r.Accounts, iban)
    IN  IF r.DestructionAccount = Nil THEN AccountDoesNotExistError
        ELSE IF r.heap[r.DestructionAccount].Type # MonetaryDestruction
          THEN AccountTypeMismatchError
        ELSE IF r.heap[r.DestructionAccount].Status = Blocked
          THEN AccountIsBlockedError
        ELSE IF amount < 0 THEN NegativeAmountError
        ELSE IF ~accountExists(r, iban) THEN AccountDoesNotExistError
        ELSE IF acc = Nil THEN Panic
        ELSE IF r.heap[acc].Iban # iban THEN AccountIbanMismatchError
        ELSE IF r.heap[acc].Status = Blocked THEN AccountIsBlockedError
        ELSE IF r.heap[acc].Balance <= roundAndExtractFractions(amount).r
          THEN InsufficientAccountBalanceError
        ELSE NoError

\* the checks of DestructMoney in their order: the error returned, or NoError
DestructMoneyCheck(r, ibanIn, amount) ==
    LET iban == StripSpaces(ibanIn)
        acc == MapGet(r.Accounts, iban)
    IN  IF r.DestructionAccount = Nil THEN AccountDoesNotExistError
        ELSE IF r.heap[r.DestructionAccount].Type # MonetaryDestruction
          THEN AccountTypeMismatchError
        ELSE IF r.heap[r.DestructionAccount].Status = Blocked
          THEN AccountIsBlockedError
        ELSE IF amount < 0 THEN NegativeAmountError
        ELSE IF ~accountExists(r, iban) THEN AccountDoesNotExistError
        ELSE IF acc = Nil THEN Panic
        ELSE IF r.heap[acc].Iban # iban THEN AccountIbanMismatchError
        ELSE IF r.heap[acc].Status = Blocked THEN AccountIsBlockedError
        ELSE IF r.heap[acc].Balance < roundAndExtractFractions(amount).r
          THEN InsufficientAccountBalanceError
        ELSE NoError

\* DestructMoney without the debit of the source account
DestructMoneyDebitNothing(r, acc, amount) == r

\* acc.Deduct(amount); r.Accounts[acc.Iban] = acc
DestructMoneyDebit(r, acc, amount) ==
    LET h1 == [r.heap EXCEPT ![acc] = Deduct(@, amount)]
    IN  [r EXCEPT !.heap = h1, !.Accounts = MapPut(@, h1[acc].Iban, acc)]

\* DestructMoney without the credit of the destruction account
DestructMoneyCreditNothing(r, amount) == r

\* r.DestructionAccount.Add(amount)
DestructMoneyCredit(r, amount) ==
    [r EXCEPT !.heap[r.DestructionAccount] = Add(@, amount)]

DestructMoney(r, ibanIn, amount) ==
    LET e == DestructMoneyCheck(r, ibanIn, amount)
        acc == MapGet(r.Accounts, StripSpaces(ibanIn))
    IN  IF e # NoError THEN Fail(r, e)
        ELSE Ok(DestructMoneyCredit(DestructMoneyDebit(r, acc, amount), amount))

\* a loop condition of OpenAccount that does not look the IBAN up
OpenAccountRetryEmptyOnly(r, g) == g.iban = <<>>

\* the loop condition of OpenAccount after GenerateValidBelarusianIban
\* returned g without an error: generate again while the IBAN is taken
OpenAccountRetry(r, g) == g.iban = <<>> \/ (g.iban # <<>> /\ accountExists(r, g.iban))

\* an OpenAccount that creates its account with the type of the emission account
OpenAccountInsertEmission(r, iban) ==
    [r EXCEPT !.heap = MapPut(@, NewPtr(iban),
                              NewAccount(iban, Active, MonetaryEmission, 0)),
              !.Accounts = MapPut(@, iban, NewPtr(iban))]

\* an OpenAccount that stores its account in a new map
OpenAccountInsertReplacing(r, iban) ==
    [r EXCEPT !.heap = MapPut(@, NewPtr(iban), NewAccount(iban, Active, Ordinary, 0)),
              !.Accounts = MapPut(<<>>, iban, NewPtr(iban))]

\* acc := NewAccount(iban, Active, Ordinary, 0); r.Accounts[iban] = acc
OpenAccountInsert(r, iban) ==
    [r EXCEPT !.heap = MapPut(@, NewPtr(iban), NewAccount(iban, Active, Ordinary, 0)),
              !.Accounts = MapPut(@, iban, NewPtr(iban))]

\* The results OpenAccount can return: the loop asks GenerateValidBelarusianIban
\* until it returns an IBAN that no account has, and fails when it returns an
\* error.  acc is the pointer returned.
OpenAccount(r) ==
    {IF g.err # NoError
       THEN [repo |-> r, err |-> AccountCreationError, acc |-> Nil]
     ELSE [repo |-> OpenAccountInsert(r, g.iban), err |-> NoError,
           acc |-> NewPtr(g.iban)] :
     g \in {x \in GenerateValidBelarusianIban :
               x.err # NoError \/ ~OpenAccountRetry(r, x)}}

\* the checks of TransferMoney without the check of the sender's status
TransferMoneyCheckAnySender(r, senderIn, recipientIn, amount) ==
    LET sender == StripSpaces(senderIn)
        recipient == StripSpaces(recipientIn)
        sAcc == MapGet(r.Accounts, sender)
        rAcc == MapGet(r.Accounts, recipient)
    IN  IF sender \notin DOMAIN r.Accounts \/ sAcc = Nil
          THEN AccountDoesNotExistError
        ELSE IF r.heap[sAcc].Iban # sender THEN AccountIbanMismatchError
        ELSE IF amount < 0 THEN NegativeAmountError
        ELSE IF r.heap[sAcc].Balance < roundAndExtractFractions(amount).r
          THEN InsufficientAccountBalanceError
        ELSE IF recipient \notin DOMAIN r.Accounts THEN AccountDoesNotExistError
        ELSE IF rAcc = Nil THEN Panic
        ELSE IF r.heap[rAcc].Iban # recipient THEN AccountIbanMismatchError
        ELSE IF r.heap[rAcc].Status = Blocked THEN AccountIsBlockedError
        ELSE NoError

\* the checks of TransferMoney without the comparison of balance and amount
TransferMoneyCheckAnyBalance(r, senderIn, recipientIn, amount) ==
    LET sender == StripSpaces(senderIn)
        recipient == StripSpaces(recipientIn)
        sAcc == MapGet(r.Accounts, sender)
        rAcc == MapGet(r.Accounts, recipient)
    IN  IF sender \notin DOMAIN r.Accounts \/ sAcc = Nil
          THEN AccountDoesNotExistError
        ELSE IF r.heap[sAcc].Iban # sender THEN AccountIbanMismatchError
        ELSE IF r.heap[sAcc].Status = Blocked THEN AccountIsBlockedError
        ELSE IF amount < 0 THEN NegativeAmountError
        ELSE IF recipient \notin DOMAIN r.Accounts THEN AccountDoesNotExistError
        ELSE IF rAcc = Nil THEN Panic
        ELSE IF r.heap[rAcc].Iban # recipient THEN AccountIbanMismatchError
        ELSE IF r.heap[rAcc].Status = Blocked THEN AccountIsBlockedError
        ELSE NoError

\* the checks of TransferMoney without the check of the recipient's status
TransferMoneyCheckAnyRecipient(r, senderIn, recipientIn, amount) ==
    LET sender == StripSpaces(senderIn)
        recipient == StripSpaces(recipientIn)
        sAcc == MapGet(r.Accounts, sender)
        rAcc == MapGet(r.Accounts, recipient)
    IN  IF sender \notin DOMAIN r.Accounts \/ sAcc = Nil
          THEN AccountDoesNotExistError
        ELSE IF r.heap[sAcc].Iban # sender THEN AccountIbanMismatchError
        ELSE IF r.heap[sAcc].Status = Blocked THEN AccountIsBlockedError
        ELSE IF amount < 0 THEN NegativeAmountError
        ELSE IF r.heap[sAcc].Balance < roundAndExtractFractions(amount).r
          THEN InsufficientAccountBalanceError
        ELSE IF recipient \notin DOMAIN r.Accounts THEN AccountDoesNotExistError
        ELSE IF rAcc = Nil THEN Panic
        ELSE IF r.heap[rAcc].Iban # recipient THEN AccountIbanMismatchError
        ELSE NoError

\* the checks of TransferMoney with the recipient looked up only by its status:
\* an unknown recipient is a nil pointer
TransferMoneyCheckNoRecipientLookup(r, senderIn, recipientIn, amount) ==
    LET sender == StripSpaces(senderIn)
        recipient == StripSpaces(recipientIn)
        sAcc == MapGet(r.Accounts, sender)
        rAcc == MapGet(r.Accounts, recipient)
    IN  IF sender \notin DOMAIN r.Accounts \/ sAcc = Nil
          THEN AccountDoesNotExistError
        ELSE IF r.heap[sAcc].Iban # sender THEN AccountIbanMismatchError
        ELSE IF r.heap[sAcc].Status = Blocked THEN AccountIsBlockedError
        ELSE IF amount < 0 THEN NegativeAmountError
        ELSE IF r.heap[sAcc].Balance < roundAndExtractFractions(amount).r
          THEN InsufficientAccountBalanceError
        ELSE IF rAcc = Nil THEN Panic
        ELSE IF r.heap[rAcc].Iban # recipient THEN AccountIbanMismatchError
        ELSE IF r.heap[rAcc].Status = Blocked THEN AccountIsBlockedError
        ELSE NoError

\* the checks of TransferMoney with a check that forbids sending to the
\* emission account
TransferMoneyCheckNoEmissionRecipient(r, senderIn, recipientIn, amount) ==
    LET sender == StripSpaces(senderIn)
        recipient == StripSpaces(recipientIn)
        sAcc == MapGet(r.Accounts, sender)
        rAcc == MapGet(r.Accounts, recipient)
    IN  IF sender \notin DOMAIN r.Accounts \/ sAcc = Nil
          THEN AccountDoesNotExistError
        ELSE IF r.heap[sAcc].Iban # sender THEN AccountIbanMismatchError
        ELSE IF r.heap[sAcc].Status = Blocked THEN AccountIsBlockedError
        ELSE IF amount < 0 THEN NegativeAmountError
        ELSE IF r.heap[sAcc].Balance < roundAndExtractFractions(amount).r
          THEN InsufficientAccountBalanceError
        ELSE IF recipient \notin DOMAIN r.Accounts THEN AccountDoesNotExistError
        ELSE IF rAcc = Nil THEN Panic
        ELSE IF r.heap[rAcc].Iban # recipient THEN AccountIbanMismatchError
        ELSE IF r.heap[rAcc].Status = Blocked THEN AccountIsBlockedError
        ELSE IF r.heap[rAcc].Type = MonetaryEmission THEN AccountTypeMismatchError
        ELSE NoError

\* the checks of TransferMoney in their order: the error returned, or NoError
TransferMoneyCheck(r, senderIn, recipientIn, amount) ==
    LET sender == StripSpaces(senderIn)
        recipient == StripSpaces(recipientIn)
        sAcc == MapGet(r.Accounts, sender)
        rAcc == MapGet(r.Accounts, recipient)
    IN  IF sender \notin DOMAIN r.Accounts \/ sAcc = Nil
          THEN AccountDoesNotExistError
        ELSE IF r.heap[sAcc].Iban # sender THEN AccountIbanMismatchError
        ELSE IF r.heap[sAcc].Status = Blocked THEN AccountIsBlockedError
        ELSE IF amount < 0 THEN NegativeAmountError
        ELSE IF r.heap[sAcc].Balance < roundAndExtractFractions(amount).r
          THEN InsufficientAccountBalanceError
        ELSE IF recipient \notin DOMAIN r.Accounts THEN AccountDoesNotExistError
        ELSE IF rAcc = Nil THEN Panic
        ELSE IF r.heap[rAcc].Iban # recipient THEN AccountIbanMismatchError
        ELSE IF r.heap[rAcc].Status = Blocked THEN AccountIsBlockedError
        ELSE NoError

\* sAcc.Deduct(amount); r.Accounts[sender] = sAcc
TransferMoneyDebit(r, sender, sAcc, amount) ==
    [r EXCEPT !.heap[sAcc] = Deduct(@, amount),
              !.Accounts = MapPut(@, sender, sAcc)]

\* a TransferMoney that stores the recipient without crediting it
TransferMoneyCreditNothing(r, recipient, rAcc, amount) ==
    [r EXCEPT !.Accounts = MapPut(@, recipient, rAcc)]

\* rAcc.Add(amount); r.Accounts[recipient] = rAcc
TransferMoneyCredit(r, recipient, rAcc, amount) ==
    [r EXCEPT !.heap[rAcc] = Add(@, amount),
              !.Accounts = MapPut(@, recipient, rAcc)]

\* a TransferMoney that debits the sender before it has checked the recipient
TransferMoneyDebitFirst(r, senderIn, recipientIn, amount) ==
    LET e == TransferMoneyCheck(r, senderIn, recipientIn, amount)
        sender == StripSpaces(senderIn)
        recipient == StripSpaces(recipientIn)
        sAcc == MapGet(r.Accounts, sender)
        rAcc == MapGet(r.Accounts, recipient)
        senderPassed ==
            /\ sAcc # Nil
            /\ r.heap[sAcc].Iban = sender
            /\ r.heap[sAcc].Status = Active
            /\ amount >= 0
            /\ r.heap[sAcc].Balance >= roundAndExtractFractions(amount).r
    IN  IF e = NoError
          THEN Ok(TransferMoneyCredit(TransferMoneyDebit(r, sender, sAcc, amount),
                                      recipient, rAcc, amount))
        ELSE IF senderPassed THEN Fail(TransferMoneyDebit(r, sender, sAcc, amount), e)
        ELSE Fail(r, e)

TransferMoney(r, senderIn, recipientIn, amount) ==
    LET e == TransferMoneyCheck(r, senderIn, recipientIn, amount)
        sender == StripSpaces(senderIn)
        recipient == StripSpaces(recipientIn)
        sAcc == MapGet(r.Accounts, sender)
        rAcc == MapGet(r.Accounts, recipient)
    IN  IF e # NoError THEN Fail(r, e)
        ELSE Ok(TransferMoneyCredit(TransferMoneyDebit(r, sender, sAcc, amount),
                                    recipient, rAcc, amount))

\* A JSON text is the sequence of its tokens: a brace, or a member "key": value
\* whose value is a JSON string (str), a JSON number (num) or null.
JsonBrace(c) == [key |-> c, kind |-> "brace", str |-> <<>>, num |-> 0]

JsonString(key, s) == [key |-> key, kind |-> "string", str |-> s, num |-> 0]

JsonNumber(key, n) == [key |-> key, kind |-> "number", str |-> <<>>, num |-> n]

JsonNull(key) == [key |-> key, kind |-> "null", str |-> <<>>, num |-> 0]

\* json.Marshal of a moneyTransfer (main.go 953-960):
\* {"sender": .., "recipient": .., "amount": ..}
MarshalMoneyTransfer(sender, recipient, amount) ==
    <<JsonBrace("{"), JsonString("sender", sender),
      JsonString("recipient", recipient), JsonNumber("amount", amount),
      JsonBrace("}")>>

\* the text is one JSON object: members between an opening and a closing brace
IsJsonObject(jsonStr) ==
    /\ Len(jsonStr) >= 2
    /\ jsonStr[1] = JsonBrace("{")
    /\ jsonStr[Len(jsonStr)] = JsonBrace("}")
    /\ \A i \in 2..(Len(jsonStr) - 1) : jsonStr[i].kind # "brace"

RECURSIVE DecodeMembers(_, _, _)
\* json.Unmarshal into a moneyTransferReq, from the i-th token on: a member
\* sets the field its key names and a later member overwrites an earlier one,
\* null and an unknown key set nothing, and a value of the wrong JSON type
\* leaves the field and makes Unmarshal return an error when it is done
DecodeMembers(jsonStr, i, req) ==
    IF i >= Len(jsonStr) THEN req
    ELSE LET m == jsonStr[i]
             field == IF m.key \in {"sender", "recipient"} THEN "string"
                      ELSE IF m.key = "amount" THEN "number"
                      ELSE "none"
             next == IF field = "none" \/ m.kind = "null" THEN req
                     ELSE IF m.kind # field
                       THEN [req EXCEPT !.err = MoneyTransferJsonError]
                     ELSE IF m.key = "sender" THEN [req EXCEPT !.Sender = m.str]
                     ELSE IF m.key = "recipient" THEN [req EXCEPT !.Recipient = m.str]
                     ELSE [req EXCEPT !.Amount = m.num]
         IN  DecodeMembers(jsonStr, i + 1, next)

\* var req moneyTransferReq; json.Unmarshal([]byte(jsonStr), &req): the request
\* decoded over the zero value, or an error for a text that is not one JSON
\* object or that holds a value of the wrong type
UnmarshalMoneyTransferReq(jsonStr) ==
    LET zero == [err |-> NoError, Sender |-> <<>>, Recipient |-> <<>>, Amount |-> 0]
    IN  IF ~IsJsonObject(jsonStr) THEN [zero EXCEPT !.err = MoneyTransferJsonError]
        ELSE DecodeMembers(jsonStr, 2, zero)

\* a TransferMoneyJson that goes on with the zero request after a decode error
TransferMoneyJsonIgnoringDecodeError(r, jsonStr) ==
    LET req == UnmarshalMoneyTransferReq(jsonStr)
    IN  TransferMoney(r, req.Sender, req.Recipient, req.Amount)

TransferMoneyJson(r, jsonStr) ==
    LET req == UnmarshalMoneyTransferReq(jsonStr)
    IN  IF req.err # NoError THEN Fail(r, MoneyTransferJsonError)
        ELSE TransferMoney(r, req.Sender, req.Recipient, req.Amount)

accountDetails(acc) ==
    [iban |-> acc.Iban, balance |-> acc.Balance, fractions |-> acc.Fractions,
     status |-> acc.Status]

RECURSIVE OrdinaryDetailsUnfiltered(_, _, _)
\* a range loop that appends every value of the map, the special accounts too
OrdinaryDetailsUnfiltered(r, order, i) ==
    IF i > Len(order) THEN <<>>
    ELSE <<accountDetails(r.heap[r.Accounts[order[i]]])>>
         \o OrdinaryDetailsUnfiltered(r, order, i + 1)

RECURSIVE OrdinaryDetails(_, _, _)
\* the range loop of RetrieveAllAccountsAsJson over the map keys from the i-th on
OrdinaryDetails(r, order, i) ==
    IF i > Len(order) THEN <<>>
    ELSE LET acc == r.Accounts[order[i]]
         IN  (IF acc # r.EmissionAccount /\ acc # r.DestructionAccount
                THEN <<accountDetails(r.heap[acc])>> ELSE <<>>)
             \o OrdinaryDetails(r, order, i + 1)

\* order: the order in which the range loop visits the keys of the map.
\* json.Marshal of the entries fails only for a number that is NaN or infinite,
\* which no amount of the model produces: err is nil.
RetrieveAllAccountsAsJson(r, order) ==
    [json |-> (IF r.EmissionAccount # Nil
                 THEN <<accountDetails(r.heap[r.EmissionAccount])>> ELSE <<>>)
              \o (IF r.DestructionAccount # Nil
                    THEN <<accountDetails(r.heap[r.DestructionAccount])>> ELSE <<>>)
              \o OrdinaryDetails(r, order, 1),
     err |-> NoError]

BlockAccount(r, ibanIn) ==
    LET iban == StripSpaces(ibanIn)
        acc == MapGet(r.Accounts, iban)
    IN  IF ~accountExists(r, iban) THEN Fail(r, AccountDoesNotExistError)
        ELSE IF acc = Nil THEN Fail(r, AccountDoesNotExistError)
        ELSE IF r.heap[acc].Iban # iban THEN Fail(r, AccountIbanMismatchError)
        ELSE LET h1 == [r.heap EXCEPT ![acc] = Block(@)]
             IN  Ok([r EXCEPT !.heap = h1,
                              !.Accounts = MapPut(@, h1[acc].Iban, acc)])

ActivateAccount(r, ibanIn) ==
    LET iban == StripSpaces(ibanIn)
        acc == MapGet(r.Accounts, iban)
    IN  IF ~accountExists(r, iban) THEN Fail(r, AccountDoesNotExistError)
        ELSE IF acc = Nil THEN Fail(r, AccountDoesNotExistError)
        ELSE IF r.heap[acc].Iban # iban THEN Fail(r, AccountIbanMismatchError)
        ELSE LET h1 == [r.heap EXCEPT ![acc] = Activate(@)]
             IN  Ok([r EXCEPT !.heap = h1,
                              !.Accounts = MapPut(@, h1[acc].Iban, acc)])

(***************************************************************************)
(* The callers' inputs                                                     *)
(***************************************************************************)
\* "BY84 ALFA 1000 0000 0000 0000 0000" and "... 0001" of main (main.go 681)
EmissionIbanText ==
    <<"B", "Y", "8", "4", " ", "A", "L", "F", "A", " ", "1", "0", "0", "0", " ">>
    \o Repeat("0", 4) \o <<" ">> \o Repeat("0", 4) \o <<" ">> \o Repeat("0", 4)
    \o <<" ">> \o Repeat("0", 4)

DestructionIbanText ==
    SubSeq(EmissionIbanText, 1, Len(EmissionIbanText) - 1) \o <<"1">>

GeneratedIbans == {g.iban : g \in {x \in GenerateValidBelarusianIban : x.err = NoError}}

\* The IBAN strings the constructor is given.  It accepts any two strings:
\* main's pair, twice the same IBAN (written with and without spaces), and
\* a destruction IBAN that the generator can produce too.
EmissionIbanChoices == {EmissionIbanText}

DestructionIbanChoices ==
    {DestructionIbanText, StripSpaces(EmissionIbanText),
     CHOOSE g \in GeneratedIbans : TRUE}

\* the IBAN strings the callers pass; a generated IBAN is unknown to the
\* ledger until OpenAccount has assigned it
IbanInputs == {EmissionIbanText, DestructionIbanText} \cup GeneratedIbans

\* the amounts the callers pass, in mills: -0.01, 0.004 and 0.015
Amounts == {-Cent, 4, 15}

\* the request texts the callers pass: well-formed requests and a truncated one
JsonInputs ==
    {MarshalMoneyTransfer(EmissionIbanText, DestructionIbanText, amt) :
        amt \in Amounts}
    \cup {<<JsonBrace("{")>>}

\* the model follows the ledger up to this many successful money operations
MaxMoves == 2

\* the attempt ceiling of GenerateValidBelarusianIban (1000000 in main.go 274),
\* scaled down
AttemptCeiling == 2

\* the candidates of one OpenAccount call are counted up to this many
MaxAttempts == 5

\* the goroutines of the concurrent specification
NumThreads == 2

Threads == 1..NumThreads

NoLocals ==
    [iban |-> Nil, acc |-> Nil, sender |-> Nil, recipient |-> Nil,
     sAcc |-> Nil, rAcc |-> Nil, amount |-> 0,
     candidate |-> <<>>, errCount |-> 0, attempts |-> 0]

NoResult == [err |-> "none", json |-> <<>>, acc |-> Nil]

IdleThread == [pc |-> "idle", op |-> "none", loc |-> NoLocals, ret |-> NoResult]

Init ==
    /\ \E eIban \in EmissionIbanChoices, dIban \in DestructionIbanChoices :
          repo = NewInMemoryAccountRepository(eIban, dIban)
    /\ lastMove = "none"
    /\ emitted = [rounded |-> 0, fractions |-> 0]
    /\ moves = 0
    /\ Mutex = 0
    /\ thr = [t \in Threads |-> IdleThread]
    /\ opened = [count |-> 0, ibans |-> {}]

(***************************************************************************)
(* Spec: the ledger with one caller.  Each operation holds the mutex from  *)
(* its first statement to its return, so each call is one action.          *)
(***************************************************************************)
Moved(err) == IF err = NoError THEN 1 ELSE 0

EmittedAfter(err, amount) ==
    IF err = NoError
      THEN [rounded |-> emitted.rounded + round(amount),
            fractions |-> emitted.fractions + (amount - round(amount))]
    ELSE emitted

RetrieveEmissionAccountIbanAct ==
    /\ RetrieveEmissionAccountIban(repo).err \in {NoError, AccountDoesNotExistError,
                                                  AccountTypeMismatchError}
    /\ UNCHANGED vars

RetrieveDestructionAccountIbanAct ==
    /\ RetrieveDestructionAccountIban(repo).err \in {NoError, AccountDoesNotExistError,
                                                     AccountTypeMismatchError}
    /\ UNCHANGED vars

EmitMoneyAct ==
    \E amount \in Amounts :
        LET res == EmitMoney(repo, amount)
        IN  /\ moves + Moved(res.err) <= MaxMoves
            /\ repo' = res.repo
            /\ lastMove' = IF res.err = NoError THEN "EmitMoney" ELSE lastMove
            /\ emitted' = EmittedAfter(res.err, amount)
            /\ moves' = moves + Moved(res.err)
            /\ UNCHANGED <<Mutex, thr, opened>>

DestructMoneyAct ==
    \E iban \in IbanInputs, amount \in Amounts :
        LET res == DestructMoney(repo, iban, amount)
        IN  /\ moves + Moved(res.err) <= MaxMoves
            /\ repo' = res.repo
            /\ lastMove' = IF res.err = NoError THEN "DestructMoney" ELSE lastMove
            /\ moves' = moves + Moved(res.err)
            /\ UNCHANGED <<emitted, Mutex, thr, opened>>

OpenAccountAct ==
    \E res \in OpenAccount(repo) :
        /\ repo' = res.repo
        /\ UNCHANGED <<lastMove, emitted, moves, Mutex, thr, opened>>

TransferMoneyAct ==
    \E sender \in IbanInputs, recipient \in IbanInputs, amount \in Amounts :
        LET res == TransferMoney(repo, sender, recipient, amount)
        IN  /\ moves + Moved(res.err) <= MaxMoves
            /\ repo' = res.repo
            /\ lastMove' = IF res.err = NoError THEN "TransferMoney" ELSE lastMove
            /\ moves' = moves + Moved(res.err)
            /\ UNCHANGED <<emitted, Mutex, thr, opened>>

\* the orders in which a range loop can visit the keys of the map
KeyOrders(m) ==
    {o \in [1..Cardinality(DOMAIN m) -> DOMAIN m] :
        \A i, j \in DOMAIN o : i # j => o[i] # o[j]}

RetrieveAllAccountsAsJsonAct ==
    \E order \in KeyOrders(repo.Accounts) :
        /\ RetrieveAllAccountsAsJson(repo, order).err = NoError
        /\ UNCHANGED vars

BlockAccountAct ==
    \E iban \in IbanInputs :
        /\ repo' = BlockAccount(repo, iban).repo
        /\ UNCHANGED <<lastMove, emitted, moves, Mutex, thr, opened>>

ActivateAccountAct ==
    \E iban \in IbanInputs :
        /\ repo' = ActivateAccount(repo, iban).repo
        /\ UNCHANGED <<lastMove, emitted, moves, Mutex, thr, opened>>

Next ==
    \/ RetrieveEmissionAccountIbanAct
    \/ RetrieveDestructionAccountIbanAct
    \/ EmitMoneyAct
    \/ DestructMoneyAct
    \/ OpenAccountAct
    \/ TransferMoneyAct
    \/ RetrieveAllAccountsAsJsonAct
    \/ BlockAccountAct
    \/ ActivateAccountAct

Spec == Init /\ [][Next]_vars

(***************************************************************************)
(* ConcSpec: goroutines calling the ledger concurrently.  A call waits at  *)
(* r.Mutex.Lock(), runs the statements of its body one after the other     *)
(* while it holds the mutex, and releases it when it returns (the deferred *)
(* Unlock).  A thread is [pc, op, loc, ret]: its position, the operation   *)
(* it is in, the locals of that operation and the values it returns.       *)
(***************************************************************************)
ConcOps ==
    {"OpenAccount", "EmitMoney", "DestructMoney", "TransferMoney",
     "RetrieveAllAccountsAsJson"}

\* a Lock that returns whoever holds the mutex
MutexIgnored(m) == TRUE

\* sync.Mutex: Lock returns only when no goroutine holds the mutex
MutexUnlocked(m) == m = 0

At(t, pc, op) == thr[t].pc = pc /\ thr[t].op = op

Goto(t, pc, loc, ret) ==
    thr' = [thr EXCEPT ![t] = [pc |-> pc, op |-> thr[t].op, loc |-> loc, ret |-> ret]]

\* A goroutine calls an operation of the ledger and reaches r.Mutex.Lock(),
\* the first statement of every operation.  Until Lock returns the call has
\* read and written nothing, so which operation it is shows from Lock on.
Call(t) ==
    /\ thr[t].pc = "idle"
    /\ thr' = [thr EXCEPT ![t] = [IdleThread EXCEPT !.pc = "lock"]]
    /\ UNCHANGED <<repo, lastMove, emitted, moves, Mutex, opened>>

\* A goroutine calls TransferMoneyJson.  It decodes the request before it
\* touches the mutex: a request that cannot be decoded makes it return
\* MoneyTransferJsonError at once, and a decoded one makes it call
\* r.TransferMoney, a call as in Call.
TransferMoneyJsonCall(t) ==
    /\ thr[t].pc = "idle"
    /\ Mutex # t
    /\ \E jsonStr \in JsonInputs :
          IF UnmarshalMoneyTransferReq(jsonStr).err # NoError
            THEN /\ TransferMoneyJson(repo, jsonStr).err = MoneyTransferJsonError
                 /\ UNCHANGED thr
          ELSE thr' = [thr EXCEPT ![t] = [IdleThread EXCEPT !.pc = "lock"]]
    /\ UNCHANGED <<repo, lastMove, emitted, moves, Mutex, opened>>

\* r.Mutex.Lock() returns in the operation op
Lock(t) ==
    /\ thr[t].pc = "lock"
    /\ MutexUnlocked(Mutex)
    /\ Mutex' = t
    /\ \E op \in ConcOps :
          thr' = [thr EXCEPT ![t] = [IdleThread EXCEPT !.pc = "body", !.op = op]]
    /\ UNCHANGED <<repo, lastMove, emitted, moves, opened>>

\* one round of the loop of OpenAccount
OpenAccountGenerate(t) ==
    /\ At(t, "body", "OpenAccount")
    /\ \E g \in GenerateValidBelarusianIban :
          IF g.err # NoError
            THEN Goto(t, "return", thr[t].loc,
                      [thr[t].ret EXCEPT !.err = AccountCreationError])
          ELSE IF OpenAccountRetry(repo, g)
            THEN Goto(t, "body", [thr[t].loc EXCEPT !.iban = g.iban], thr[t].ret)
          ELSE Goto(t, "insert", [thr[t].loc EXCEPT !.iban = g.iban], thr[t].ret)
    /\ UNCHANGED <<repo, lastMove, emitted, moves, Mutex, opened>>

\* the statements of OpenAccount after the loop
OpenAccountStore(t) ==
    /\ At(t, "insert", "OpenAccount")
    /\ repo' = OpenAccountInsert(repo, thr[t].loc.iban)
    /\ opened' = [count |-> opened.count + 1,
                  ibans |-> opened.ibans \cup {thr[t].loc.iban}]
    /\ Goto(t, "return", thr[t].loc,
            [thr[t].ret EXCEPT !.err = NoError, !.acc = NewPtr(thr[t].loc.iban)])
    /\ UNCHANGED <<lastMove, emitted, moves, Mutex>>

EmitMoneyBody(t) ==
    /\ At(t, "body", "EmitMoney")
    /\ \E amount \in Amounts :
          LET res == EmitMoney(repo, amount)
          IN  /\ moves + Moved(res.err) <= MaxMoves
              /\ repo' = res.repo
              /\ emitted' = EmittedAfter(res.err, amount)
              /\ moves' = moves + Moved(res.err)
              /\ Goto(t, "return", thr[t].loc, [thr[t].ret EXCEPT !.err = res.err])
    /\ UNCHANGED <<lastMove, Mutex, opened>>

\* DestructMoney up to acc.Deduct(amount) and the map store that follows it
DestructMoneyDeduct(t) ==
    /\ At(t, "body", "DestructMoney")
    /\ \E ibanIn \in IbanInputs, amount \in Amounts :
          LET e == DestructMoneyCheck(repo, ibanIn, amount)
              acc == MapGet(repo.Accounts, StripSpaces(ibanIn))
          IN  IF e # NoError
                THEN /\ Goto(t, "return", thr[t].loc, [thr[t].ret EXCEPT !.err = e])
                     /\ UNCHANGED <<repo, moves>>
              ELSE /\ moves + 1 <= MaxMoves
                   /\ repo' = DestructMoneyDebit(repo, acc, amount)
                   /\ moves' = moves + 1
                   /\ Goto(t, "credit",
                           [thr[t].loc EXCEPT !.iban = StripSpaces(ibanIn),
                                              !.acc = acc, !.amount = amount],
                           thr[t].ret)
    /\ UNCHANGED <<lastMove, emitted, Mutex, opened>>

\* r.DestructionAccount.Add(amount) and the return
DestructMoneyAdd(t) ==
    /\ At(t, "credit", "DestructMoney")
    /\ repo' = DestructMoneyCredit(repo, thr[t].loc.amount)
    /\ Goto(t, "return", thr[t].loc, [thr[t].ret EXCEPT !.err = NoError])
    /\ UNCHANGED <<lastMove, emitted, moves, Mutex, opened>>

\* TransferMoney up to sAcc.Deduct(amount) and the map store that follows it
TransferMoneyDeduct(t) ==
    /\ At(t, "body", "TransferMoney")
    /\ \E senderIn \in IbanInputs, recipientIn \in IbanInputs, amount \in Amounts :
          LET e == TransferMoneyCheck(repo, senderIn, recipientIn, amount)
              sender == StripSpaces(senderIn)
              recipient == StripSpaces(recipientIn)
              sAcc == MapGet(repo.Accounts, sender)
              rAcc == MapGet(repo.Accounts, recipient)
          IN  IF e # NoError
                THEN /\ Goto(t, "return", thr[t].loc, [thr[t].ret EXCEPT !.err = e])
                     /\ UNCHANGED <<repo, moves>>
              ELSE /\ moves + 1 <= MaxMoves
                   /\ repo' = TransferMoneyDebit(repo, sender, sAcc, amount)
                   /\ moves' = moves + 1
                   /\ Goto(t, "credit",
                           [thr[t].loc EXCEPT !.sender = sender, !.recipient = recipient,
                                              !.sAcc = sAcc, !.rAcc = rAcc,
                                              !.amount = amount],
                           thr[t].ret)
    /\ UNCHANGED <<lastMove, emitted, Mutex, opened>>

\* rAcc.Add(amount), the map store that follows it and the return
TransferMoneyAdd(t) ==
    /\ At(t, "credit", "TransferMoney")
    /\ repo' = TransferMoneyCredit(repo, thr[t].loc.recipient, thr[t].loc.rAcc,
                                   thr[t].loc.amount)
    /\ Goto(t, "return", thr[t].loc, [thr[t].ret EXCEPT !.err = NoError])
    /\ UNCHANGED <<lastMove, emitted, moves, Mutex, opened>>

RetrieveAllAccountsAsJsonBody(t) ==
    /\ At(t, "body", "RetrieveAllAccountsAsJson")
    /\ \E order \in KeyOrders(repo.Accounts) :
          LET res == RetrieveAllAccountsAsJson(repo, order)
          IN  Goto(t, "return", thr[t].loc,
                   [thr[t].ret EXCEPT !.err = res.err, !.json = res.json])
    /\ UNCHANGED <<repo, lastMove, emitted, moves, Mutex, opened>>

\* a return that releases the mutex only when the call succeeded
UnlockOnSuccess(t) ==
    /\ thr[t].pc = "return"
    /\ Mutex' = IF thr[t].ret.err = NoError THEN 0 ELSE Mutex
    /\ thr' = [thr EXCEPT ![t] = IdleThread]
    /\ UNCHANGED <<repo, lastMove, emitted, moves, opened>>

\* the deferred r.Mutex.Unlock(): the call returns to its caller
Unlock(t) ==
    /\ thr[t].pc = "return"
    /\ Mutex' = 0
    /\ thr' = [thr EXCEPT ![t] = IdleThread]
    /\ UNCHANGED <<repo, lastMove, emitted, moves, opened>>

CallStep == \E t \in Threads : Call(t)

TransferMoneyJsonCallStep == \E t \in Threads : TransferMoneyJsonCall(t)

LockStep == \E t \in Threads : Lock(t)

OpenAccountGenerateStep == \E t \in Threads : OpenAccountGenerate(t)

OpenAccountStoreStep == \E t \in Threads : OpenAccountStore(t)

EmitMoneyStep == \E t \in Threads : EmitMoneyBody(t)

DestructMoneyDeductStep == \E t \in Threads : DestructMoneyDeduct(t)

DestructMoneyAddStep == \E t \in Threads : DestructMoneyAdd(t)

TransferMoneyDeductStep == \E t \in Threads : TransferMoneyDeduct(t)

TransferMoneyAddStep == \E t \in Threads : TransferMoneyAdd(t)

RetrieveAllAccountsAsJsonStep == \E t \in Threads : RetrieveAllAccountsAsJsonBody(t)

UnlockStep == \E t \in Threads : Unlock(t)

ConcNext ==
    \/ CallStep
    \/ TransferMoneyJsonCallStep
    \/ LockStep
    \/ OpenAccountGenerateStep
    \/ OpenAccountStoreStep
    \/ EmitMoneyStep
    \/ DestructMoneyDeductStep
    \/ DestructMoneyAddStep
    \/ TransferMoneyDeductStep
    \/ TransferMoneyAddStep
    \/ RetrieveAllAccountsAsJsonStep
    \/ UnlockStep

ConcSpec == Init /\ [][ConcNext]_vars

(***************************************************************************)
(* FairConcSpec: ConcSpec under fair scheduling.  A goroutine that can run *)
(* a statement of the operation it is in eventually runs one, and a        *)
(* goroutine that waits in r.Mutex.Lock() gets the mutex if it is free     *)
(* again and again (sync.Mutex hands the mutex to a waiter that has waited *)
(* long).  Which IBAN the generator returns is chance, not scheduling.     *)
(***************************************************************************)
Run(t) ==
    \/ OpenAccountGenerate(t)
    \/ OpenAccountStore(t)
    \/ EmitMoneyBody(t)
    \/ DestructMoneyDeduct(t)
    \/ DestructMoneyAdd(t)
    \/ TransferMoneyDeduct(t)
    \/ TransferMoneyAdd(t)
    \/ RetrieveAllAccountsAsJsonBody(t)
    \/ Unlock(t)

FairConcSpec ==
    /\ ConcSpec
    /\ \A t \in Threads : WF_vars(Run(t)) /\ SF_vars(Lock(t))

(***************************************************************************)
(* OpenSpec: OpenAccount candidate by candidate.  The loop of OpenAccount  *)
(* calls GenerateValidBelarusianIban, whose own loop draws candidates      *)
(* until one is valid or errCount has passed the ceiling.  loc.attempts    *)
(* counts the candidates drawn since the call of OpenAccount.              *)
(***************************************************************************)
OpenAccountCall(t) ==
    /\ thr[t].pc = "idle"
    /\ MutexUnlocked(Mutex)
    /\ Mutex' = t
    /\ thr' = [thr EXCEPT ![t] = [IdleThread EXCEPT !.pc = "loop", !.op = "OpenAccount"]]
    /\ UNCHANGED <<repo, lastMove, emitted, moves, opened>>

\* for iban == "" || (iban != "" && r.accountExists(iban)): the call of
\* GenerateValidBelarusianIban starts with iban = "" and errCount = 0
OpenAccountLoop(t) ==
    /\ At(t, "loop", "OpenAccount")
    /\ IF OpenAccountRetry(repo, [iban |-> thr[t].loc.iban])
         THEN Goto(t, "generate",
                   [thr[t].loc EXCEPT !.candidate = <<>>, !.errCount = 0], thr[t].ret)
       ELSE Goto(t, "insert", thr[t].loc, thr[t].ret)
    /\ UNCHANGED <<repo, lastMove, emitted, moves, Mutex, opened>>

\* one test of for !IsValidIban(iban) in GenerateValidBelarusianIban and the
\* round of the loop, or the return, that follows it
GenerateCandidate(t) ==
    /\ At(t, "generate", "OpenAccount")
    /\ IF IsValidIban(thr[t].loc.candidate)
         THEN Goto(t, "loop", [thr[t].loc EXCEPT !.iban = thr[t].loc.candidate],
                   thr[t].ret)
       ELSE IF thr[t].loc.errCount > AttemptCeiling
         THEN Goto(t, "return", thr[t].loc,
                   [thr[t].ret EXCEPT !.err = AccountCreationError])
       ELSE \E bban \in BbanChoices :
               Goto(t, "generate",
                    [thr[t].loc EXCEPT
                       !.candidate = GenerateBelarusianIban(bban).iban,
                       !.errCount = @ + 1,
                       !.attempts = IF @ < MaxAttempts THEN @ + 1 ELSE @],
                    thr[t].ret)
    /\ UNCHANGED <<repo, lastMove, emitted, moves, Mutex, opened>>

OpenNext ==
    \E t \in Threads :
        \/ OpenAccountCall(t)
        \/ OpenAccountLoop(t)
        \/ GenerateCandidate(t)
        \/ OpenAccountStore(t)
        \/ Unlock(t)

OpenSpec == Init /\ [][OpenNext]_vars

(***************************************************************************)
(* ScenarioSpec: a sequence of calls from main's use cases, by one caller  *)
(* on a ledger whose two special IBANs differ: EmitMoney(250) (use case    *)
(* 7), DestructMoney(E, 10) (use case 8), OpenAccount giving X, then       *)
(* TransferMoney(E, X, 50) and the listing (use case 9).  Each amount is   *)
(* drawn from the amounts that are the same to the cent.  A call that      *)
(* returns an error leaves the caller where it is.                         *)
(***************************************************************************)
ScenarioEmitAmounts == {249996, 250000, 250004}

ScenarioDestructAmounts == {9996, 10000, 10004}

ScenarioTransferAmounts == {49996, 50000, 50004}

ScenarioInit ==
    /\ Init
    /\ repo.heap[repo.EmissionAccount].Iban # repo.heap[repo.DestructionAccount].Iban

ScenarioEmit ==
    /\ moves = 0
    /\ \E amount \in ScenarioEmitAmounts :
          LET res == EmitMoney(repo, amount)
          IN  /\ repo' = res.repo
              /\ lastMove' = IF res.err = NoError THEN "EmitMoney" ELSE lastMove
              /\ emitted' = EmittedAfter(res.err, amount)
              /\ moves' = moves + Moved(res.err)
    /\ UNCHANGED <<Mutex, thr, opened>>

ScenarioDestruct ==
    /\ moves = 1
    /\ \E amount \in ScenarioDestructAmounts :
          LET res == DestructMoney(repo, EmissionIbanText, amount)
          IN  /\ repo' = res.repo
              /\ lastMove' = IF res.err = NoError THEN "DestructMoney" ELSE lastMove
              /\ moves' = moves + Moved(res.err)
    /\ UNCHANGED <<emitted, Mutex, thr, opened>>

ScenarioOpen ==
    /\ moves = 2
    /\ opened.count = 0
    /\ \E res \in OpenAccount(repo) :
          /\ repo' = res.repo
          /\ opened' = IF res.err = NoError
                         THEN [count |-> 1, ibans |-> {res.repo.heap[res.acc].Iban}]
                       ELSE opened
    /\ UNCHANGED <<lastMove, emitted, moves, Mutex, thr>>

ScenarioTransfer ==
    /\ moves = 2
    /\ opened.count = 1
    /\ \E x \in opened.ibans, amount \in ScenarioTransferAmounts :
          LET res == TransferMoney(repo, EmissionIbanText, x, amount)
          IN  /\ repo' = res.repo
              /\ lastMove' = IF res.err = NoError THEN "TransferMoney" ELSE lastMove
              /\ moves' = moves + Moved(res.err)
    /\ UNCHANGED <<emitted, Mutex, thr, opened>>

\* the caller keeps the listing it was returned
ScenarioListing ==
    /\ moves = 3
    /\ \E t \in Threads, order \in KeyOrders(repo.Accounts) :
          LET res == RetrieveAllAccountsAsJson(repo, order)
          IN  thr' = [thr EXCEPT ![t] =
                        [pc |-> "return", op |-> "RetrieveAllAccountsAsJson",
                         loc |-> NoLocals,
                         ret |-> [NoResult EXCEPT !.err = res.err, !.json = res.json]]]
    /\ UNCHANGED <<repo, lastMove, emitted, moves, Mutex, opened>>

ScenarioNext ==
    \/ ScenarioEmit
    \/ ScenarioDestruct
    \/ ScenarioOpen
    \/ ScenarioTransfer
    \/ ScenarioListing

ScenarioSpec == ScenarioInit /\ [][ScenarioNext]_vars

(***************************************************************************)
(* CallSpec: one caller and all ten operations of the ledger, the transfer *)
(* by request text included, on the ledger of main and on a ledger built   *)
(* from the same IBAN twice.                                               *)
(***************************************************************************)
\* request texts that json.Marshal of a moneyTransfer does not write: without
\* the amount, with the amount as a JSON string, with a null sender, with a
\* member the structure does not have, with the amount twice
RequestWithoutAmount ==
    <<JsonBrace("{"), JsonString("sender", EmissionIbanText),
      JsonString("recipient", DestructionIbanText), JsonBrace("}")>>

RequestWithStringAmount ==
    <<JsonBrace("{"), JsonString("sender", EmissionIbanText),
      JsonString("recipient", DestructionIbanText),
      JsonString("amount", <<"1", "5">>), JsonBrace("}")>>

RequestWithNullSender ==
    <<JsonBrace("{"), JsonNull("sender"),
      JsonString("recipient", DestructionIbanText),
      JsonNumber("amount", 15), JsonBrace("}")>>

RequestWithUnknownMember ==
    <<JsonBrace("{"), JsonString("sender", EmissionIbanText),
      JsonString("memo", <<"x">>), JsonString("recipient", DestructionIbanText),
      JsonNumber("amount", 15), JsonBrace("}")>>

RequestWithAmountTwice ==
    <<JsonBrace("{"), JsonNumber("amount", -Cent),
      JsonString("sender", EmissionIbanText),
      JsonString("recipient", DestructionIbanText),
      JsonNumber("amount", 15), JsonBrace("}")>>

\* texts that are not a JSON object: cut off, a lone closing brace, empty
TruncatedRequests ==
    {<<JsonBrace("{"), JsonString("sender", EmissionIbanText)>>,
     <<JsonBrace("}")>>, <<>>}

\* the requests json.Marshal writes for transfers from the emission account
MarshalledRequests ==
    {MarshalMoneyTransfer(EmissionIbanText, recipient, amount) :
        recipient \in IbanInputs, amount \in Amounts}

\* the request texts the caller passes
JsonRequests ==
    MarshalledRequests
    \cup {RequestWithoutAmount, RequestWithStringAmount, RequestWithNullSender,
          RequestWithUnknownMember, RequestWithAmountTwice}
    \cup TruncatedRequests

CallInit ==
    /\ \E dIban \in {DestructionIbanText, StripSpaces(EmissionIbanText)} :
          repo = NewInMemoryAccountRepository(EmissionIbanText, dIban)
    /\ lastMove = "none"
    /\ emitted = [rounded |-> 0, fractions |-> 0]
    /\ moves = 0
    /\ Mutex = 0
    /\ thr = [t \in Threads |-> IdleThread]
    /\ opened = [count |-> 0, ibans |-> {}]

\* the model follows the ledger of CallSpec up to this many successful money
\* operations
MaxCallMoves == 1

CallEmitMoney == EmitMoneyAct /\ moves' <= MaxCallMoves

CallDestructMoney == DestructMoneyAct /\ moves' <= MaxCallMoves

CallTransferMoney == TransferMoneyAct /\ moves' <= MaxCallMoves

CallTransferMoneyJson ==
    \E jsonStr \in JsonRequests :
        LET res == TransferMoneyJson(repo, jsonStr)
        IN  /\ moves + Moved(res.err) <= MaxCallMoves
            /\ repo' = res.repo
            /\ lastMove' = IF res.err = NoError THEN "TransferMoneyJson" ELSE lastMove
            /\ moves' = moves + Moved(res.err)
            /\ UNCHANGED <<emitted, Mutex, thr, opened>>

CallNext ==
    \/ RetrieveEmissionAccountIbanAct
    \/ RetrieveDestructionAccountIbanAct
    \/ CallEmitMoney
    \/ CallDestructMoney
    \/ OpenAccountAct
    \/ CallTransferMoney
    \/ CallTransferMoneyJson
    \/ RetrieveAllAccountsAsJsonAct
    \/ BlockAccountAct
    \/ ActivateAccountAct

CallSpec == CallInit /\ [][CallNext]_vars

(***************************************************************************)
(* WorkerSpec: the goroutines of use case 4 (main.go 698-707, 785-809).    *)
(* Each worker calls OpenAccount, draws an amount, calls EmitMoney(amount) *)
(* and then TransferMoney(emission IBAN, acc.Iban, amount), and returns at *)
(* the first call that gives an error.  Every call holds the mutex from    *)
(* its first statement to its return, so a call is one step.  The ledger   *)
(* is the one of main, possibly after an emission; emitted keeps what was  *)
(* emitted before the workers start.  A worker is [pc, op, loc, ret]: the  *)
(* call it makes next, the call it made last, its acc.Iban and amount, and *)
(* the error of its last call.                                             *)
(***************************************************************************)
\* rand.Float64() * float64(rand.Intn(1000)) in mills: 0, 0.004, 0.015, 2.505
WorkerAmounts == {0, 4, 15, 2505}

\* what main may have emitted before it starts the workers
SetupAmounts == {0, 15}

WorkerInit ==
    /\ \E a0 \in SetupAmounts :
          /\ repo = EmitMoney(NewInMemoryAccountRepository(EmissionIbanText,
                                                           DestructionIbanText),
                              a0).repo
          /\ emitted = [rounded |-> round(a0), fractions |-> a0 - round(a0)]
    /\ lastMove = "none"
    /\ moves = 0
    /\ Mutex = 0
    /\ thr = [t \in Threads |-> IdleThread]
    /\ opened = [count |-> 0, ibans |-> {}]

\* acc, err := service.OpenAccount(); if err != nil { ...; return }
WorkerOpenAccount(t) ==
    /\ thr[t].pc = "idle"
    /\ \E res \in OpenAccount(repo) :
          /\ repo' = res.repo
          /\ IF res.err # NoError
               THEN /\ thr' = [thr EXCEPT ![t] =
                          [pc |-> "done", op |-> "OpenAccount", loc |-> NoLocals,
                           ret |-> [NoResult EXCEPT !.err = res.err]]]
                    /\ UNCHANGED opened
             ELSE /\ thr' = [thr EXCEPT ![t] =
                        [pc |-> "emit", op |-> "OpenAccount",
                         loc |-> [NoLocals EXCEPT !.iban = res.repo.heap[res.acc].Iban,
                                                  !.acc = res.acc],
                         ret |-> [NoResult EXCEPT !.err = NoError, !.acc = res.acc]]]
                  /\ opened' = [count |-> opened.count + 1,
                                ibans |-> opened.ibans
                                          \cup {res.repo.heap[res.acc].Iban}]
    /\ UNCHANGED <<lastMove, emitted, moves, Mutex>>

\* amount := rand...; err = service.EmitMoney(amount); if err != nil { return }
WorkerEmitMoney(t) ==
    /\ thr[t].pc = "emit"
    /\ \E amount \in WorkerAmounts :
          LET res == EmitMoney(repo, amount)
          IN  /\ repo' = res.repo
              /\ thr' = [thr EXCEPT ![t] =
                    [pc |-> IF res.err = NoError THEN "transfer" ELSE "done",
                     op |-> "EmitMoney",
                     loc |-> [thr[t].loc EXCEPT !.amount = amount],
                     ret |-> [thr[t].ret EXCEPT !.err = res.err]]]
    /\ UNCHANGED <<lastMove, emitted, moves, Mutex, opened>>

\* err = service.TransferMoney("BY84 ALFA 1000 0000 0000 0000 0000", acc.Iban,
\* amount) and the return of the worker
WorkerTransferMoney(t) ==
    /\ thr[t].pc = "transfer"
    /\ LET res == TransferMoney(repo, EmissionIbanText, thr[t].loc.iban,
                                thr[t].loc.amount)
       IN  /\ repo' = res.repo
           /\ thr' = [thr EXCEPT ![t] =
                 [pc |-> "done", op |-> "TransferMoney", loc |-> thr[t].loc,
                  ret |-> [thr[t].ret EXCEPT !.err = res.err]]]
    /\ UNCHANGED <<lastMove, emitted, moves, Mutex, opened>>

WorkerOpenAccountStep == \E t \in Threads : WorkerOpenAccount(t)

WorkerEmitMoneyStep == \E t \in Threads : WorkerEmitMoney(t)

WorkerTransferMoneyStep == \E t \in Threads : WorkerTransferMoney(t)

WorkerNext ==
    \/ WorkerOpenAccountStep
    \/ WorkerEmitMoneyStep
    \/ WorkerTransferMoneyStep

WorkerSpec == WorkerInit /\ [][WorkerNext]_vars

(***************************************************************************)
(* CodecSpec: a caller of the IBAN codec.  The functions of the codec read *)
(* and write nothing but their arguments, so one caller shows all they do: *)
(* it holds a text (loc.candidate), calls IsValidIban, Mod97 or            *)
(* CalculateIbanCheckDigits on it, or GenerateBelarusianIban, and has the  *)
(* result in ret when the call has returned.                               *)
(***************************************************************************)
CodecCaller == 1

\* the numbers a pair of check digits can show
TwoDigitNumbers == 0..99

\* s with c at position i
ReplaceAt(s, i, c) == [k \in 1..Len(s) |-> IF k = i THEN c ELSE s[k]]

\* s written in blocks of four separated by spaces, as main writes its IBANs
InBlocksOfFour(s) ==
    LET n == Len(s) + (Len(s) - 1) \div 4
    IN  [k \in 1..n |-> IF k % 5 = 0 THEN " " ELSE s[k - (k \div 5)]]

\* account numbers after the check digits: digits only, and with letters
CodecBbans ==
    {Repeat("0", BbanLength - 3) \o <<"1", "5", "5">>,
     <<"A", "L", "F", "A", "1", "0", "0", "0">> \o Repeat("0", BbanLength - 8),
     <<"Z", "Z", "9", "9">> \o Repeat("7", BbanLength - 4)}

\* every pair of check digits before each of these account numbers
CheckDigitTexts ==
    {<<"B", "Y">> \o Sprintf02d(n) \o b : n \in TwoDigitNumbers, b \in CodecBbans}

\* texts of another form: in blocks of four, too short, too long, empty, with
\* a lower-case letter, a hyphen or a space inside, and main's two IBANs
MalformedTexts ==
    LET v == <<"B", "Y", "9", "7">> \o Repeat("0", BbanLength - 3) \o <<"1", "5", "5">>
    IN  {InBlocksOfFour(v), InBlocksOfFour(ReplaceAt(v, 4, "8")),
         <<" ">> \o v \o <<" ", " ">>,
         SubSeq(v, 1, Len(v) - 1), v \o <<"0">>, v \o v, <<>>, <<" ">>,
         ReplaceAt(v, 1, "b"), ReplaceAt(v, 28, "a"), ReplaceAt(v, 9, "-"),
         ReplaceAt(v, 9, " "), ReplaceAt(v, 9, " ") \o <<"0">>,
         EmissionIbanText, DestructionIbanText}

\* digit strings whose decimal value an integer of the model can hold
ShortDigitTexts ==
    {Sprintf02d(n) : n \in TwoDigitNumbers}
    \cup {<<"9">>, <<"0", "0", "9", "7">>, <<"1", "9", "4", "0">>,
          <<"1", "2", "3", "4", "5", "6", "7", "8", "9">>, Repeat("9", 9)}

\* the numeric forms that GenerateBelarusianIban hands to
\* CalculateIbanCheckDigits, and those that IsValidIban hands to Mod97
NumericFormTexts ==
    {ConvertIbanToNumericForm(<<"B", "Y", "0", "0">> \o b).str : b \in CodecBbans}
    \cup {ConvertIbanToNumericForm(<<"B", "Y", "9", "7">> \o b).str : b \in CodecBbans}

\* digit strings too long for an integer, ending in every pair of digits
LongDigitTexts == {Repeat("9", 20) \o Sprintf02d(n) : n \in TwoDigitNumbers}

CodecTexts ==
    CheckDigitTexts \cup MalformedTexts \cup ShortDigitTexts \cup NumericFormTexts
    \cup LongDigitTexts

\* what GenerateRandomDigits(24) can draw for the caller
CodecDraws == BbanChoices \cup {Repeat("9", BbanLength), Repeat("0", BbanLength)}

NoCodecResult == [valid |-> FALSE, remainder |-> 0, str |-> <<>>, err |-> "none"]

CodecInit ==
    /\ \E eIban \in EmissionIbanChoices :
          repo = NewInMemoryAccountRepository(eIban, DestructionIbanText)
    /\ lastMove = "none"
    /\ emitted = [rounded |-> 0, fractions |-> 0]
    /\ moves = 0
    /\ Mutex = 0
    /\ \E text \in CodecTexts :
          thr = [t \in Threads |->
                   [IdleThread EXCEPT !.loc.candidate = text, !.ret = NoCodecResult]]
    /\ opened = [count |-> 0, ibans |-> {}]

\* the caller's call of op has returned ret
Returned(op, loc, ret) ==
    [thr EXCEPT ![CodecCaller] = [pc |-> "return", op |-> op, loc |-> loc, ret |-> ret]]

IsValidIbanCall ==
    /\ thr[CodecCaller].pc = "idle"
    /\ thr' = Returned("IsValidIban", thr[CodecCaller].loc,
                       [NoCodecResult EXCEPT
                          !.valid = IsValidIban(thr[CodecCaller].loc.candidate)])
    /\ UNCHANGED <<repo, lastMove, emitted, moves, Mutex, opened>>

Mod97Call ==
    /\ thr[CodecCaller].pc = "idle"
    /\ thr' = Returned("Mod97", thr[CodecCaller].loc,
                       [NoCodecResult EXCEPT
                          !.remainder = Mod97(thr[CodecCaller].loc.candidate)])
    /\ UNCHANGED <<repo, lastMove, emitted, moves, Mutex, opened>>

CalculateIbanCheckDigitsCall ==
    /\ thr[CodecCaller].pc = "idle"
    /\ thr' = Returned("CalculateIbanCheckDigits", thr[CodecCaller].loc,
                       [NoCodecResult EXCEPT
                          !.str = CalculateIbanCheckDigits(thr[CodecCaller].loc.candidate)])
    /\ UNCHANGED <<repo, lastMove, emitted, moves, Mutex, opened>>

\* the caller keeps the BBAN drawn in loc.candidate
GenerateBelarusianIbanCall ==
    /\ thr[CodecCaller].pc = "idle"
    /\ \E bban \in CodecDraws :
          thr' = Returned("GenerateBelarusianIban",
                          [thr[CodecCaller].loc EXCEPT !.candidate = bban],
                          [NoCodecResult EXCEPT
                             !.str = GenerateBelarusianIban(bban).iban,
                             !.err = GenerateBelarusianIban(bban).err])
    /\ UNCHANGED <<repo, lastMove, emitted, moves, Mutex, opened>>

\* the caller is ready for its next call, on the text it holds
CodecDone ==
    /\ thr[CodecCaller].pc = "return"
    /\ thr' = [thr EXCEPT ![CodecCaller] =
                 [pc |-> "idle", op |-> "none", loc |-> thr[CodecCaller].loc,
                  ret |-> NoCodecResult]]
    /\ UNCHANGED <<repo, lastMove, emitted, moves, Mutex, opened>>

CodecNext ==
    \/ IsValidIbanCall
    \/ Mod97Call
    \/ CalculateIbanCheckDigitsCall
    \/ GenerateBelarusianIbanCall
    \/ CodecDone

CodecSpec == CodecInit /\ [][CodecNext]_vars

(***************************************************************************)
(* Vocabulary of the properties                                            *)
(***************************************************************************)
\* the accounts of a repository: the two special accounts and the map's values
Population(r) ==
    {r.EmissionAccount, r.DestructionAccount}
    \cup {r.Accounts[k] : k \in DOMAIN r.Accounts}

\* the monetary value an account holds: Balance plus Fractions
Value(acc) == acc.Balance + acc.Fractions

Known(r, ibanIn) == StripSpaces(ibanIn) \in DOMAIN r.Accounts

\* the account an IBAN known to the ledger names
AccountOf(r, ibanIn) == r.heap[r.Accounts[StripSpaces(ibanIn)]]

\* c is amount rounded to the nearest cent, a half cent going away from zero
IsNearestCent(c, amount) ==
    /\ c % Cent = 0
    /\ 2 * Abs(amount - c) <= Cent
    /\ 2 * Abs(amount - c) = Cent => Abs(c) > Abs(amount)

\* every account but those at the pointers in ps is the same in r and in s
SameExcept(r, s, ps) ==
    /\ DOMAIN s.heap = DOMAIN r.heap
    /\ s.Accounts = r.Accounts
    /\ s.EmissionAccount = r.EmissionAccount
    /\ s.DestructionAccount = r.DestructionAccount
    /\ \A p \in (DOMAIN r.heap) \ ps : s.heap[p] = r.heap[p]

\* all balances and fractions are the same in r and in s
SameBalances(r, s) ==
    /\ DOMAIN s.heap = DOMAIN r.heap
    /\ \A p \in DOMAIN r.heap :
          /\ s.heap[p].Balance = r.heap[p].Balance
          /\ s.heap[p].Fractions = r.heap[p].Fractions

C3_TransferMovesAmountAnyPair ==
    \A a \in IbanInputs, b \in IbanInputs, amt \in Amounts :
        LET res == TransferMoney(repo, a, b, amt)
        IN  res.err = NoError =>
              /\ Value(AccountOf(res.repo, a)) + Value(AccountOf(res.repo, b))
                   = Value(AccountOf(repo, a)) + Value(AccountOf(repo, b))
              /\ Value(AccountOf(res.repo, a)) = Value(AccountOf(repo, a)) - amt

(***************************************************************************)
(* C3 amended: a successful TransferMoney(a, b, amt) between two different *)
(* accounts keeps value(a) + value(b), lowers value(a) by exactly amt and  *)
(* raises value(b) by exactly amt; with a = b it leaves the value of the   *)
(* account as it was.                                                      *)
(***************************************************************************)
C3_TransferMovesAmount ==
    \A a \in IbanInputs, b \in IbanInputs, amt \in Amounts :
        LET res == TransferMoney(repo, a, b, amt)
        IN  res.err = NoError =>
              IF StripSpaces(a) # StripSpaces(b)
                THEN /\ Value(AccountOf(res.repo, a)) + Value(AccountOf(res.repo, b))
                          = Value(AccountOf(repo, a)) + Value(AccountOf(repo, b))
                     /\ Value(AccountOf(res.repo, a)) = Value(AccountOf(repo, a)) - amt
                     /\ Value(AccountOf(res.repo, b)) = Value(AccountOf(repo, b)) + amt
              ELSE Value(AccountOf(res.repo, a)) = Value(AccountOf(repo, a))

\* a transfer has moved a positive balance into an ordinary account
C3_Witness ==
    /\ lastMove = "TransferMoney"
    /\ \E p \in DOMAIN repo.heap :
          /\ repo.heap[p].Type = Ordinary
          /\ repo.heap[p].Balance > 0
          /\ repo.heap[p].Fractions # 0

(***************************************************************************)
(* C5: a successful EmitMoney(amt) raises the emission account's value by  *)
(* exactly amt and its Balance by amt rounded to the nearest cent, and     *)
(* changes no other account.                                               *)
(***************************************************************************)
C5_EmitAddsAmount ==
    \A amt \in Amounts :
        LET res == EmitMoney(repo, amt)
            e == repo.EmissionAccount
        IN  res.err = NoError =>
              /\ Value(res.repo.heap[e]) = Value(repo.heap[e]) + amt
              /\ IsNearestCent(res.repo.heap[e].Balance - repo.heap[e].Balance, amt)
              /\ SameExcept(repo, res.repo, {e})

\* an emission of an amount with a sub-cent part has taken place
C5_Witness ==
    /\ lastMove = "EmitMoney"
    /\ repo.heap[repo.EmissionAccount].Balance > 0
    /\ repo.heap[repo.EmissionAccount].Fractions # 0

(***************************************************************************)
(* C6 as stated: for every IBAN known to the ledger, ordinary, emission or *)
(* destruction, a successful DestructMoney(iban, amt) lowers that          *)
(* account's value by amt and raises the destruction account's by amt.     *)
(* Violated when iban is the destruction account's own IBAN.               *)
(***************************************************************************)
C6_DestructMovesAmountAnyIban ==
    \A iban \in IbanInputs, amt \in Amounts :
        LET res == DestructMoney(repo, iban, amt)
            d == repo.DestructionAccount
        IN  res.err = NoError =>
              /\ Value(AccountOf(res.repo, iban)) = Value(AccountOf(repo, iban)) - amt
              /\ Value(res.repo.heap[d]) = Value(repo.heap[d]) + amt

(***************************************************************************)
(* C6 amended: for every known IBAN that names another account than the    *)
(* destruction account, a successful DestructMoney(iban, amt) lowers that  *)
(* account's value by exactly amt and raises the destruction account's by  *)
(* exactly amt; when iban names the destruction account itself, the value  *)
(* of that account is left as it was.                                      *)
(***************************************************************************)
C6_DestructMovesAmount ==
    \A iban \in IbanInputs, amt \in Amounts :
        LET res == DestructMoney(repo, iban, amt)
            d == repo.DestructionAccount
        IN  res.err = NoError =>
              IF repo.Accounts[StripSpaces(iban)] # d
                THEN /\ Value(AccountOf(res.repo, iban))
                          = Value(AccountOf(repo, iban)) - amt
                     /\ Value(res.repo.heap[d]) = Value(repo.heap[d]) + amt
              ELSE Value(res.repo.heap[d]) = Value(repo.heap[d])

\* a destruction has moved a balance out of another account
C6_Witness ==
    /\ lastMove = "DestructMoney"
    /\ repo.heap[repo.DestructionAccount].Balance > 0
    /\ repo.heap[repo.DestructionAccount].Fractions # 0

(***************************************************************************)
(* C7 as stated: in every reachable state and for all other arguments,     *)
(* EmitMoney, DestructMoney and TransferMoney with amount < 0 fail with    *)
(* NegativeAmount, also when an account involved is Blocked or unknown,    *)
(* and leave every balance unchanged.                                      *)
(* Violated: the status and sender checks come before the amount check.    *)
(***************************************************************************)
C7_NegativeAmountAlwaysReported ==
    \A amt \in {x \in Amounts : x < 0} :
        /\ EmitMoney(repo, amt).err = NegativeAmountError
        /\ SameBalances(repo, EmitMoney(repo, amt).repo)
        /\ \A iban \in IbanInputs :
              /\ DestructMoney(repo, iban, amt).err = NegativeAmountError
              /\ SameBalances(repo, DestructMoney(repo, iban, amt).repo)
        /\ \A a \in IbanInputs, b \in IbanInputs :
              /\ TransferMoney(repo, a, b, amt).err = NegativeAmountError
              /\ SameBalances(repo, TransferMoney(repo, a, b, amt).repo)

(***************************************************************************)
(* C7 amended: with amount < 0, EmitMoney, DestructMoney and TransferMoney *)
(* always fail and leave every balance unchanged.  The error is            *)
(* NegativeAmount when the checks that come first pass: for EmitMoney when *)
(* the emission account is Active, for DestructMoney when the destruction  *)
(* account is Active (whatever the source IBAN, known, unknown or Blocked) *)
(* and for TransferMoney when the sender is known and Active (whatever the *)
(* recipient).  Otherwise it is AccountBlocked for a Blocked emission      *)
(* account, destruction account or sender, and AccountNotFound for an      *)
(* unknown sender.                                                         *)
(***************************************************************************)
C7_NegativeAmountRejected ==
    \A amt \in {x \in Amounts : x < 0} :
        /\ LET res == EmitMoney(repo, amt)
           IN  /\ res.err =
                     (IF repo.heap[repo.EmissionAccount].Status = Blocked
                        THEN AccountIsBlockedError ELSE NegativeAmountError)
               /\ SameBalances(repo, res.repo)
        /\ \A iban \in IbanInputs :
              LET res == DestructMoney(repo, iban, amt)
              IN  /\ res.err =
                        (IF repo.heap[repo.DestructionAccount].Status = Blocked
                           THEN AccountIsBlockedError ELSE NegativeAmountError)
                  /\ SameBalances(repo, res.repo)
        /\ \A a \in IbanInputs, b \in IbanInputs :
              LET res == TransferMoney(repo, a, b, amt)
              IN  /\ res.err =
                        (IF ~Known(repo, a) THEN AccountDoesNotExistError
                         ELSE IF AccountOf(repo, a).Status = Blocked
                           THEN AccountIsBlockedError
                         ELSE NegativeAmountError)
                  /\ SameBalances(repo, res.repo)

\* money has been emitted, the emission account is Blocked and the destruction
\* account is not: a negative emission is refused as blocked, a negative
\* destruction and a negative transfer to an unknown recipient as negative
C7_Witness ==
    /\ lastMove = "EmitMoney"
    /\ repo.heap[repo.EmissionAccount].Status = Blocked
    /\ repo.heap[repo.DestructionAccount].Status = Active
    /\ EmitMoney(repo, -Cent).err = AccountIsBlockedError
    /\ DestructMoney(repo, EmissionIbanText, -Cent).err = NegativeAmountError
    /\ \E b \in IbanInputs :
          /\ ~Known(repo, b)
          /\ TransferMoney(repo, DestructionIbanText, b, -Cent).err = NegativeAmountError

(***************************************************************************)
(* C8: every ledger operation that returns an error leaves the whole       *)
(* ledger state (the set of accounts and every account's Balance,          *)
(* Fractions, Status and Type) exactly as it was before the call.          *)
(***************************************************************************)
C8_ErrorLeavesLedgerUnchanged ==
    /\ \A amt \in Amounts :
          LET res == EmitMoney(repo, amt)
          IN  res.err # NoError => res.repo = repo
    /\ \A iban \in IbanInputs, amt \in Amounts :
          LET res == DestructMoney(repo, iban, amt)
          IN  res.err # NoError => res.repo = repo
    /\ \A a \in IbanInputs, b \in IbanInputs, amt \in Amounts :
          LET res == TransferMoney(repo, a, b, amt)
          IN  res.err # NoError => res.repo = repo
    /\ \A res \in OpenAccount(repo) : res.err # NoError => res.repo = repo
    /\ \A iban \in IbanInputs :
          LET blocked == BlockAccount(repo, iban)
              activated == ActivateAccount(repo, iban)
          IN  /\ blocked.err # NoError => blocked.repo = repo
              /\ activated.err # NoError => activated.repo = repo

\* the emission account holds money and a transfer of it fails only at the
\* recipient's checks, after the sender's balance was found sufficient
C8_Witness ==
    /\ lastMove = "EmitMoney"
    /\ \E b \in IbanInputs, amt \in Amounts :
          /\ amt > 0
          /\ repo.heap[repo.EmissionAccount].Balance >= round(amt)
          /\ round(amt) > 0
          /\ TransferMoney(repo, EmissionIbanText, b, amt).err
                \in {AccountDoesNotExistError, AccountIsBlockedError}
          /\ AccountOf(repo, EmissionIbanText).Status = Active

(***************************************************************************)
(* C9: in every reachable state every account's Balance is greater than or *)
(* equal to zero.                                                          *)
(***************************************************************************)
C9_BalanceNeverNegative ==
    \A p \in Population(repo) : repo.heap[p].Balance >= 0

\* a transfer has taken the whole balance of the emission account
C9_Witness ==
    /\ lastMove = "TransferMoney"
    /\ emitted.rounded > 0
    /\ repo.heap[repo.EmissionAccount].Balance = 0

(***************************************************************************)
(* C10: TransferMoney from an existing Active sender to an existing Active *)
(* recipient fails with InsufficientBalance whenever the sender's Balance  *)
(* is less than amount; a zero-balance account sending any amount > 0      *)
(* fails.  Violated: the check compares with the amount rounded to cents,  *)
(* so an amount below half a cent passes it.                               *)
(***************************************************************************)
C10_InsufficientBalanceRejected ==
    \A a \in IbanInputs, b \in IbanInputs, amt \in Amounts :
        ( /\ Known(repo, a)
          /\ Known(repo, b)
          /\ AccountOf(repo, a).Status = Active
          /\ AccountOf(repo, b).Status = Active
          /\ amt >= 0
          /\ AccountOf(repo, a).Balance < amt )
        => TransferMoney(repo, a, b, amt).err = InsufficientAccountBalanceError

(***************************************************************************)
(* C1: under every interleaving of concurrent OpenAccount calls (and of    *)
(* the other operations), the calls that have returned successfully have   *)
(* returned accounts with pairwise distinct IBANs, none equal to the       *)
(* emission or the destruction IBAN, each account is the one the ledger    *)
(* holds under its IBAN, and the ledger holds exactly one additional       *)
(* account per successful call.                                            *)
(***************************************************************************)
C1_ConcurrentOpenAccountDistinct ==
    /\ Cardinality(opened.ibans) = opened.count
    /\ \A iban \in opened.ibans :
          /\ iban # repo.heap[repo.EmissionAccount].Iban
          /\ iban # repo.heap[repo.DestructionAccount].Iban
          /\ iban \in DOMAIN repo.Accounts
          /\ repo.heap[repo.Accounts[iban]].Iban = iban
          /\ repo.heap[repo.Accounts[iban]].Type = Ordinary
    /\ Cardinality(Population(repo)) = 2 + opened.count
    /\ \A t \in Threads :
          (At(t, "return", "OpenAccount") /\ thr[t].ret.err = NoError)
            => /\ thr[t].ret.acc \in DOMAIN repo.heap
               /\ repo.heap[thr[t].ret.acc].Iban \in opened.ibans

\* two calls of OpenAccount have succeeded, the second is about to return
\* while a call of another goroutine waits for the mutex
C1_Witness ==
    /\ opened.count = 2
    /\ \E t \in Threads, u \in Threads :
          /\ t # u
          /\ At(t, "return", "OpenAccount")
          /\ thr[t].ret.err = NoError
          /\ thr[u].pc = "lock"

RECURSIVE TotalBalance(_, _)
\* the sum of the balances of a listing from its i-th entry on
TotalBalance(json, i) ==
    IF i > Len(json) THEN 0 ELSE json[i].balance + TotalBalance(json, i + 1)

(***************************************************************************)
(* C4: under every interleaving of EmitMoney, DestructMoney, TransferMoney *)
(* and OpenAccount calls with concurrent RetrieveAllAccountsAsJson         *)
(* readers, the balances of every listing a reader returns sum to the sum  *)
(* of the cent-rounded amounts emitted so far: no listing shows a debit    *)
(* without its matching credit.                                            *)
(***************************************************************************)
C4_ListingShowsWholeTransfers ==
    \A t \in Threads :
        At(t, "return", "RetrieveAllAccountsAsJson")
          => TotalBalance(thr[t].ret.json, 1) = emitted.rounded

\* a reader returns a listing taken after money was emitted and moved to the
\* destruction account, while a call of another goroutine waits for the mutex
C4_Witness ==
    \E t \in Threads, u \in Threads :
        /\ t # u
        /\ At(t, "return", "RetrieveAllAccountsAsJson")
        /\ TotalBalance(thr[t].ret.json, 1) > 0
        /\ repo.heap[repo.DestructionAccount].Balance > 0
        /\ thr[u].pc = "lock"

(***************************************************************************)
(* C11: while account a is Blocked, every TransferMoney(a, b, amt) with    *)
(* amt >= 0 fails with AccountBlocked, for every recipient b (known,       *)
(* unknown, Blocked, or a itself), and leaves the ledger and so every      *)
(* balance unchanged.                                                      *)
(***************************************************************************)
C11_BlockedSenderRejected ==
    \A a \in {x \in IbanInputs : Known(repo, x) /\ AccountOf(repo, x).Status = Blocked},
       b \in IbanInputs, amt \in {x \in Amounts : x >= 0} :
        LET res == TransferMoney(repo, a, b, amt)
        IN  /\ res.err = AccountIsBlockedError
            /\ SameBalances(repo, res.repo)

\* the emission account holds emitted money and is Blocked, and the destruction
\* account is Active: only the sender's status stops the transfer
C11_Witness ==
    /\ lastMove = "EmitMoney"
    /\ AccountOf(repo, EmissionIbanText).Status = Blocked
    /\ AccountOf(repo, EmissionIbanText).Balance >= round(15)
    /\ Known(repo, DestructionIbanText)
    /\ AccountOf(repo, DestructionIbanText).Status = Active
    /\ TransferMoney(repo, EmissionIbanText, DestructionIbanText, 15).err
          = AccountIsBlockedError

(***************************************************************************)
(* C12: BlockAccount(a) followed by ActivateAccount(a) restores a's        *)
(* ability to send.  For every TransferMoney(a, b, amt) that succeeds in   *)
(* the current state: after BlockAccount(a) it fails with AccountBlocked,  *)
(* and after the ActivateAccount(a) that follows it succeeds and leaves    *)
(* the same ledger as the transfer issued before the BlockAccount.         *)
(***************************************************************************)
C12_ActivateRestoresSending ==
    \A a \in IbanInputs, b \in IbanInputs, amt \in Amounts :
        LET res == TransferMoney(repo, a, b, amt)
            blocked == BlockAccount(repo, a)
            activated == ActivateAccount(blocked.repo, a)
        IN  res.err = NoError
              => /\ blocked.err = NoError
                 /\ TransferMoney(blocked.repo, a, b, amt).err = AccountIsBlockedError
                 /\ activated.err = NoError
                 /\ TransferMoney(activated.repo, a, b, amt) = res

\* the Active emission account holds emitted money and can send it to an
\* account opened since; blocked, it cannot
C12_Witness ==
    /\ lastMove = "EmitMoney"
    /\ AccountOf(repo, EmissionIbanText).Status = Active
    /\ \E b \in GeneratedIbans :
          /\ Known(repo, b)
          /\ TransferMoney(repo, EmissionIbanText, b, 15).err = NoError
          /\ TransferMoney(BlockAccount(repo, EmissionIbanText).repo,
                           EmissionIbanText, b, 15).err = AccountIsBlockedError
          /\ Value(AccountOf(TransferMoney(repo, EmissionIbanText, b, 15).repo, b)) = 15

(***************************************************************************)
(* C13: in every reachable state exactly one account of the population has *)
(* type MonetaryEmission and exactly one has type MonetaryDestruction:     *)
(* they are the two accounts the constructor made, and every other account *)
(* has type Ordinary.                                                      *)
(***************************************************************************)
C13_OneEmissionOneDestruction ==
    /\ {p \in Population(repo) : repo.heap[p].Type = MonetaryEmission}
          = {EmissionPtr}
    /\ {p \in Population(repo) : repo.heap[p].Type = MonetaryDestruction}
          = {DestructionPtr}
    /\ repo.EmissionAccount = EmissionPtr
    /\ repo.DestructionAccount = DestructionPtr
    /\ \A p \in Population(repo) \ {EmissionPtr, DestructionPtr} :
          repo.heap[p].Type = Ordinary

\* two ordinary accounts were opened and money has moved
C13_Witness ==
    /\ Cardinality(Population(repo)) = 4
    /\ lastMove = "TransferMoney"

(***************************************************************************)
(* C14: the scenario on a fresh ledger with emission account E and         *)
(* destruction account D.  After EmitMoney(250) E holds 250.00; after      *)
(* DestructMoney(E, 10) E holds 240.00 and D holds 10.00; after            *)
(* OpenAccount giving X and TransferMoney(E, X, 50) E holds 190.00 and X   *)
(* holds 50.00 (D still 10.00); the listing then has exactly 3 entries, E, *)
(* D and X with these balances, all Active.  Balances are the Balance      *)
(* field, as the listing shows it.                                         *)
(***************************************************************************)
C14_Scenario ==
    LET E == repo.heap[repo.EmissionAccount]
        D == repo.heap[repo.DestructionAccount]
    IN  /\ moves = 0 => (E.Balance = 0 /\ D.Balance = 0)
        /\ moves = 1 => (E.Balance = 250000 /\ D.Balance = 0)
        /\ moves = 2 => (E.Balance = 240000 /\ D.Balance = 10000)
        /\ (moves = 2 /\ opened.count = 1)
              => \A x \in opened.ibans : AccountOf(repo, x).Balance = 0
        /\ moves = 3
              => /\ E.Balance = 190000
                 /\ D.Balance = 10000
                 /\ \A x \in opened.ibans : AccountOf(repo, x).Balance = 50000
                 /\ Cardinality(Population(repo)) = 3
        /\ \A t \in Threads :
              At(t, "return", "RetrieveAllAccountsAsJson")
                => LET json == thr[t].ret.json
                   IN  /\ thr[t].ret.err = NoError
                       /\ Len(json) = 3
                       /\ json[1].iban = E.Iban
                       /\ json[1].balance = 190000
                       /\ json[2].iban = D.Iban
                       /\ json[2].balance = 10000
                       /\ json[3].iban \in opened.ibans
                       /\ json[3].balance = 50000
                       /\ \A i \in 1..3 : json[i].status = Active

\* the scenario was run to its end with the amounts 250, 10 and 50 and the
\* caller holds the listing
C14_Witness ==
    /\ moves = 3
    /\ emitted = [rounded |-> 250000, fractions |-> 0]
    /\ Value(repo.heap[repo.EmissionAccount]) = 190000
    /\ Value(repo.heap[repo.DestructionAccount]) = 10000
    /\ \E x \in opened.ibans : Value(AccountOf(repo, x)) = 50000
    /\ \E t \in Threads : At(t, "return", "RetrieveAllAccountsAsJson")

(***************************************************************************)
(* C15: at most one ledger operation is inside its critical section at any *)
(* time, the goroutine inside is the one holding the mutex, and the mutex  *)
(* is free whenever no operation is inside, whatever exit path (success or *)
(* an error return) the finished operations took; a goroutine that waits   *)
(* in r.Mutex.Lock(), as TransferMoneyJson does in the TransferMoney it    *)
(* calls, does not hold the mutex.                                         *)
(***************************************************************************)
C15_MutualExclusion ==
    LET inside == {t \in Threads : thr[t].pc \notin {"idle", "lock"}}
    IN  /\ Cardinality(inside) <= 1
        /\ \A t \in inside : Mutex = t
        /\ inside = {} <=> Mutex = 0
        /\ \A t \in Threads : thr[t].pc = "lock" => Mutex # t

\* a call is about to return InsufficientBalance while another call waits for
\* the mutex, after calls that succeeded
C15_Witness ==
    /\ moves = MaxMoves
    /\ opened.count >= 1
    /\ \E t \in Threads, u \in Threads :
          /\ thr[t].pc = "return"
          /\ thr[t].ret.err = InsufficientAccountBalanceError
          /\ Mutex = t
          /\ thr[u].pc = "lock"

(***************************************************************************)
(* C16: under fair scheduling every invoked ledger operation eventually    *)
(* returns, in every reachable state, including OpenAccount called when    *)
(* every IBAN the generator can produce already belongs to an account.     *)
(* Violated: the loop of OpenAccount has no bound of its own, and when     *)
(* every IBAN the generator returns is taken it goes round for ever with   *)
(* the mutex held, so that no other call returns either.                   *)
(***************************************************************************)
C16_EveryCallReturns ==
    \A t \in Threads : (thr[t].pc # "idle") ~> (thr[t].pc = "idle")

(***************************************************************************)
(* C17: a single OpenAccount call generates at most the attempt ceiling of *)
(* candidate IBANs (read generously: as many as one call of                *)
(* GenerateValidBelarusianIban can draw, the ceiling plus one), counting   *)
(* candidates rejected as invalid and candidates rejected as already       *)
(* existing alike; a call that returns AccountCreationError has added no   *)
(* account.                                                                *)
(* Violated: errCount belongs to one call of GenerateValidBelarusianIban   *)
(* and starts from 0 each time OpenAccount rejects an IBAN as existing.    *)
(***************************************************************************)
C17_AttemptCeiling ==
    \A t \in Threads :
        thr[t].op = "OpenAccount"
          => /\ thr[t].loc.attempts <= AttemptCeiling + 1
             /\ thr[t].ret.err = AccountCreationError
                  => Cardinality(Population(repo)) = 2 + opened.count

(***************************************************************************)
(* C18: a successful OpenAccount adds exactly one account, with type       *)
(* Ordinary, status Active, Balance 0 and Fractions 0, under an IBAN the   *)
(* ledger did not have, and leaves every existing account (IBAN, balance,  *)
(* fractions, status, type) and every existing entry of the map unchanged. *)
(***************************************************************************)
C18_OpenAccountAddsOne ==
    \A res \in OpenAccount(repo) :
        res.err = NoError
          => /\ res.acc \notin Population(repo)
             /\ Population(res.repo) = Population(repo) \cup {res.acc}
             /\ res.repo.heap[res.acc]
                   = [Iban |-> res.repo.heap[res.acc].Iban, Status |-> Active,
                      Type |-> Ordinary, Balance |-> 0, Fractions |-> 0]
             /\ res.repo.heap[res.acc].Iban \notin DOMAIN repo.Accounts
             /\ DOMAIN res.repo.Accounts
                   = DOMAIN repo.Accounts \cup {res.repo.heap[res.acc].Iban}
             /\ res.repo.Accounts[res.repo.heap[res.acc].Iban] = res.acc
             /\ \A k \in DOMAIN repo.Accounts : res.repo.Accounts[k] = repo.Accounts[k]
             /\ \A p \in Population(repo) : res.repo.heap[p] = repo.heap[p]
             /\ res.repo.EmissionAccount = repo.EmissionAccount
             /\ res.repo.DestructionAccount = repo.DestructionAccount

\* an account was opened and received money, the emission account is Blocked,
\* and OpenAccount can still succeed
C18_Witness ==
    /\ lastMove = "TransferMoney"
    /\ Cardinality(Population(repo)) = 3
    /\ \E p \in Population(repo) :
          repo.heap[p].Type = Ordinary /\ Value(repo.heap[p]) > 0
    /\ repo.heap[repo.EmissionAccount].Status = Blocked
    /\ \E res \in OpenAccount(repo) : res.err = NoError

(***************************************************************************)
(* C19: after any sequence of ledger operations,                           *)
(* RetrieveEmissionAccountIban and RetrieveDestructionAccountIban succeed  *)
(* and return the emission and the destruction IBAN given at construction, *)
(* with the spaces removed; they return neither AccountDoesNotExistError   *)
(* nor AccountTypeMismatchError.  The constructor's arguments are the pair *)
(* whose map entries the ledger still has.                                 *)
(***************************************************************************)
C19_SpecialIbansRetrieved ==
    \E eIban \in EmissionIbanChoices, dIban \in DestructionIbanChoices :
        LET r0 == NewInMemoryAccountRepository(eIban, dIban)
        IN  /\ \A k \in DOMAIN r0.Accounts :
                  k \in DOMAIN repo.Accounts /\ repo.Accounts[k] = r0.Accounts[k]
            /\ RetrieveEmissionAccountIban(repo)
                  = [iban |-> StripSpaces(eIban), err |-> NoError]
            /\ RetrieveDestructionAccountIban(repo)
                  = [iban |-> StripSpaces(dIban), err |-> NoError]

\* both special accounts are Blocked, two accounts were opened and money moved
C19_Witness ==
    /\ lastMove = "DestructMoney"
    /\ Cardinality(Population(repo)) = 4
    /\ repo.heap[repo.EmissionAccount].Status = Blocked
    /\ repo.heap[repo.DestructionAccount].Status = Blocked
    /\ RetrieveDestructionAccountIban(repo).iban = StripSpaces(DestructionIbanText)

(***************************************************************************)
(* C20: BlockAccount(iban) and ActivateAccount(iban) fail with             *)
(* AccountDoesNotExistError exactly when iban is unknown and then change   *)
(* nothing; otherwise they succeed whatever the current status, set the    *)
(* status of that account only, change no balance, and are idempotent:     *)
(* applying the same operation twice gives the same ledger state as        *)
(* applying it once.                                                       *)
(***************************************************************************)
C20_BlockActivateIdempotent ==
    \A iban \in IbanInputs :
        LET b == BlockAccount(repo, iban)
            a == ActivateAccount(repo, iban)
        IN  IF ~Known(repo, iban)
              THEN /\ b = Fail(repo, AccountDoesNotExistError)
                   /\ a = Fail(repo, AccountDoesNotExistError)
            ELSE /\ b.err = NoError
                 /\ a.err = NoError
                 /\ AccountOf(b.repo, iban).Status = Blocked
                 /\ AccountOf(a.repo, iban).Status = Active
                 /\ b.repo = [repo EXCEPT
                                !.heap[repo.Accounts[StripSpaces(iban)]].Status = Blocked]
                 /\ a.repo = [repo EXCEPT
                                !.heap[repo.Accounts[StripSpaces(iban)]].Status = Active]
                 /\ SameBalances(repo, b.repo)
                 /\ SameBalances(repo, a.repo)
                 /\ BlockAccount(b.repo, iban) = b
                 /\ ActivateAccount(a.repo, iban) = a

\* the emission account is Blocked and holds money, an opened account is
\* Active, and one IBAN is still unknown
C20_Witness ==
    /\ lastMove = "EmitMoney"
    /\ AccountOf(repo, EmissionIbanText).Status = Blocked
    /\ AccountOf(repo, EmissionIbanText).Balance > 0
    /\ \E g \in GeneratedIbans : Known(repo, g) /\ AccountOf(repo, g).Status = Active
    /\ \E g \in IbanInputs : ~Known(repo, g)

(***************************************************************************)
(* C21: an account's status changes only in a successful BlockAccount or   *)
(* ActivateAccount on that account: EmitMoney, DestructMoney, OpenAccount  *)
(* and TransferMoney leave every status as it is, and BlockAccount(iban)   *)
(* and ActivateAccount(iban) leave the status of every account but the one *)
(* iban names.  And no status is terminal: in every reachable state every  *)
(* account of the population, the special accounts included, can be made   *)
(* Blocked by a BlockAccount call and Active by an ActivateAccount call.   *)
(* (Only these two operations write a status and the map never rebinds an  *)
(* IBAN, so a status is reachable exactly when one such call sets it.)     *)
(* Violated: on a ledger built from the same IBAN twice (C2) the map holds *)
(* the destruction account under that IBAN and no call reaches the         *)
(* emission account, which stays Active for ever.                          *)
(***************************************************************************)
C21_StatusOnlyByBlockActivate ==
    /\ \A s \in {EmitMoney(repo, amt).repo : amt \in Amounts}
                \cup {DestructMoney(repo, a, amt).repo :
                         a \in IbanInputs, amt \in Amounts}
                \cup {TransferMoney(repo, a, b, amt).repo :
                         a \in IbanInputs, b \in IbanInputs, amt \in Amounts}
                \cup {res.repo : res \in OpenAccount(repo)} :
          \A p \in Population(repo) : s.heap[p].Status = repo.heap[p].Status
    /\ \A iban \in IbanInputs :
          \A p \in Population(repo) \ {MapGet(repo.Accounts, StripSpaces(iban))} :
              /\ BlockAccount(repo, iban).repo.heap[p].Status = repo.heap[p].Status
              /\ ActivateAccount(repo, iban).repo.heap[p].Status = repo.heap[p].Status
    /\ \A p \in Population(repo) :
          /\ \E iban \in IbanInputs :
                BlockAccount(repo, iban).repo.heap[p].Status = Blocked
          /\ \E iban \in IbanInputs :
                ActivateAccount(repo, iban).repo.heap[p].Status = Active

(***************************************************************************)
(* C22: TransferMoney(a, b, amt) with amt >= 0 from a known, Active sender *)
(* whose Balance covers amt rounded to cents to a known recipient that is  *)
(* Blocked fails with AccountIsBlockedError and leaves the ledger, and so  *)
(* every balance, unchanged.                                               *)
(***************************************************************************)
C22_BlockedRecipientRejected ==
    \A a \in IbanInputs, b \in IbanInputs, amt \in {x \in Amounts : x >= 0} :
        ( /\ Known(repo, a)
          /\ Known(repo, b)
          /\ AccountOf(repo, a).Status = Active
          /\ AccountOf(repo, a).Balance >= round(amt)
          /\ AccountOf(repo, b).Status = Blocked )
        => /\ TransferMoney(repo, a, b, amt) = Fail(repo, AccountIsBlockedError)
           /\ SameBalances(repo, TransferMoney(repo, a, b, amt).repo)

\* the Active emission account holds the money of an emission and an opened
\* account is Blocked: the recipient's status alone stops the transfer
C22_Witness ==
    /\ lastMove = "EmitMoney"
    /\ AccountOf(repo, EmissionIbanText).Status = Active
    /\ AccountOf(repo, EmissionIbanText).Balance >= round(15)
    /\ AccountOf(repo, EmissionIbanText).Balance > 0
    /\ \E b \in GeneratedIbans :
          /\ Known(repo, b)
          /\ AccountOf(repo, b).Status = Blocked
          /\ TransferMoney(repo, EmissionIbanText, b, 15).err = AccountIsBlockedError

(***************************************************************************)
(* C23 as stated: receiving is not gated by status, so TransferMoney with  *)
(* amt >= 0 from a known, Active sender with sufficient Balance to a known *)
(* recipient that is Blocked succeeds and credits the recipient.           *)
(* Violated: TransferMoney checks the recipient's status (main.go 567).    *)
(***************************************************************************)
C23_BlockedRecipientCredited ==
    \A a \in IbanInputs, b \in IbanInputs, amt \in {x \in Amounts : x >= 0} :
        ( /\ Known(repo, a)
          /\ Known(repo, b)
          /\ AccountOf(repo, a).Status = Active
          /\ AccountOf(repo, a).Balance >= round(amt)
          /\ AccountOf(repo, b).Status = Blocked )
        => /\ TransferMoney(repo, a, b, amt).err = NoError
           /\ Value(AccountOf(TransferMoney(repo, a, b, amt).repo, b))
                 = Value(AccountOf(repo, b)) + amt

(***************************************************************************)
(* C23 amended: receiving by transfer is gated by status.  TransferMoney   *)
(* with amt >= 0 from a known, Active sender with sufficient Balance to a  *)
(* known recipient succeeds exactly when the recipient is Active, and then *)
(* credits a recipient other than the sender with amt; to a Blocked        *)
(* recipient it fails with AccountIsBlockedError and the recipient's       *)
(* Balance and Fractions stay as they are.                                 *)
(***************************************************************************)
C23_ReceivingGatedByStatus ==
    \A a \in IbanInputs, b \in IbanInputs, amt \in {x \in Amounts : x >= 0} :
        ( /\ Known(repo, a)
          /\ Known(repo, b)
          /\ AccountOf(repo, a).Status = Active
          /\ AccountOf(repo, a).Balance >= round(amt) )
        => LET res == TransferMoney(repo, a, b, amt)
           IN  /\ res.err = NoError <=> AccountOf(repo, b).Status = Active
               /\ (res.err = NoError /\ StripSpaces(a) # StripSpaces(b))
                    => Value(AccountOf(res.repo, b)) = Value(AccountOf(repo, b)) + amt
               /\ AccountOf(repo, b).Status = Blocked
                    => /\ res.err = AccountIsBlockedError
                       /\ AccountOf(res.repo, b) = AccountOf(repo, b)

\* the emission account can pay 0.015: an Active opened account would receive
\* it and a Blocked one would not
C23_Witness ==
    /\ lastMove = "EmitMoney"
    /\ AccountOf(repo, EmissionIbanText).Status = Active
    /\ AccountOf(repo, EmissionIbanText).Balance >= round(15)
    /\ \E b \in GeneratedIbans, c \in GeneratedIbans :
          /\ Known(repo, b)
          /\ Known(repo, c)
          /\ AccountOf(repo, b).Status = Active
          /\ AccountOf(repo, c).Status = Blocked
          /\ Value(AccountOf(TransferMoney(repo, EmissionIbanText, b, 15).repo, b)) = 15
          /\ TransferMoney(repo, EmissionIbanText, c, 15).err = AccountIsBlockedError

(***************************************************************************)
(* C24 as stated: TransferMoney(a, b, amt) with amt >= 0 fails with        *)
(* AccountDoesNotExistError whenever a or b is unknown to the ledger,      *)
(* whatever the status and the balance of the other account.               *)
(* Violated: the sender's status and balance are checked before the        *)
(* recipient is looked up.                                                 *)
(***************************************************************************)
C24_UnknownIbanAlwaysNotFound ==
    \A a \in IbanInputs, b \in IbanInputs, amt \in {x \in Amounts : x >= 0} :
        (~Known(repo, a) \/ ~Known(repo, b))
          => TransferMoney(repo, a, b, amt).err = AccountDoesNotExistError

(***************************************************************************)
(* C24 amended: TransferMoney(a, b, amt) with amt >= 0 and a or b unknown  *)
(* fails and leaves the ledger unchanged.  The error is                    *)
(* AccountDoesNotExistError when the sender is unknown, whatever the       *)
(* recipient, and when the recipient is unknown and the sender is Active   *)
(* with a Balance that covers amt rounded to cents; with an unknown        *)
(* recipient it is AccountIsBlockedError for a Blocked sender and          *)
(* InsufficientAccountBalanceError for an Active sender whose Balance is   *)
(* less than amt rounded to cents.                                         *)
(***************************************************************************)
C24_UnknownIbanRejected ==
    \A a \in IbanInputs, b \in IbanInputs, amt \in {x \in Amounts : x >= 0} :
        (~Known(repo, a) \/ ~Known(repo, b))
          => LET res == TransferMoney(repo, a, b, amt)
             IN  /\ res.repo = repo
                 /\ res.err =
                       IF ~Known(repo, a) THEN AccountDoesNotExistError
                       ELSE IF AccountOf(repo, a).Status = Blocked
                         THEN AccountIsBlockedError
                       ELSE IF AccountOf(repo, a).Balance < round(amt)
                         THEN InsufficientAccountBalanceError
                       ELSE AccountDoesNotExistError

\* an IBAN is unknown; the Active emission account can pay 0.015 and the
\* transfer to the unknown IBAN is not found, and the destruction account is
\* Blocked and its transfer to the unknown IBAN is refused for that
C24_Witness ==
    /\ lastMove = "EmitMoney"
    /\ AccountOf(repo, EmissionIbanText).Status = Active
    /\ AccountOf(repo, EmissionIbanText).Balance >= round(15)
    /\ Known(repo, DestructionIbanText)
    /\ AccountOf(repo, DestructionIbanText).Status = Blocked
    /\ \E u \in GeneratedIbans :
          /\ ~Known(repo, u)
          /\ TransferMoney(repo, EmissionIbanText, u, 15).err = AccountDoesNotExistError
          /\ TransferMoney(repo, DestructionIbanText, u, 4).err = AccountIsBlockedError
          /\ TransferMoney(repo, u, EmissionIbanText, 4).err = AccountDoesNotExistError

(***************************************************************************)
(* C25: DestructMoney(iban, amt) with amt >= 0 fails with                  *)
(* AccountIsBlockedError if the destruction account is Blocked; otherwise  *)
(* with AccountDoesNotExistError if iban is unknown; otherwise with        *)
(* AccountIsBlockedError if the source account is Blocked; otherwise with  *)
(* InsufficientAccountBalanceError if the source's Balance is less than    *)
(* amt rounded to cents; and succeeds in every other case, the one where   *)
(* amt rounded is the source's whole Balance included.  A failure leaves   *)
(* the ledger unchanged.                                                   *)
(***************************************************************************)
C25_DestructMoneyOutcome ==
    \A iban \in IbanInputs, amt \in {x \in Amounts : x >= 0} :
        LET res == DestructMoney(repo, iban, amt)
        IN  /\ res.err =
                  IF repo.heap[repo.DestructionAccount].Status = Blocked
                    THEN AccountIsBlockedError
                  ELSE IF ~Known(repo, iban) THEN AccountDoesNotExistError
                  ELSE IF AccountOf(repo, iban).Status = Blocked
                    THEN AccountIsBlockedError
                  ELSE IF AccountOf(repo, iban).Balance < round(amt)
                    THEN InsufficientAccountBalanceError
                  ELSE NoError
            /\ res.err # NoError => res.repo = repo

\* both accounts are Active and the emission account holds exactly 0.02, the
\* rounded 0.015: destructing 0.015 takes its whole balance
C25_Witness ==
    /\ lastMove = "EmitMoney"
    /\ repo.heap[repo.DestructionAccount].Status = Active
    /\ repo.DestructionAccount # repo.Accounts[StripSpaces(EmissionIbanText)]
    /\ AccountOf(repo, EmissionIbanText).Status = Active
    /\ AccountOf(repo, EmissionIbanText).Balance = round(15)
    /\ AccountOf(repo, EmissionIbanText).Balance > 0
    /\ DestructMoney(repo, EmissionIbanText, 15).err = NoError
    /\ AccountOf(DestructMoney(repo, EmissionIbanText, 15).repo,
                 EmissionIbanText).Balance = 0
    /\ \E u \in GeneratedIbans : ~Known(repo, u)

\* an emission of 500000 currency units, in mills
LargeEmission == 500000 * 100 * Cent

(***************************************************************************)
(* C26: EmitMoney(amt) with amt >= 0 fails with AccountIsBlockedError      *)
(* exactly when the emission account is Blocked and succeeds otherwise,    *)
(* for small and for large amounts, adding amt rounded to cents to the     *)
(* Balance; a second large emission on top of the first succeeds too, so   *)
(* neither one emission nor the accumulated Balance has an upper bound.    *)
(***************************************************************************)
C26_EmitMoneyOutcome ==
    \A amt \in {x \in Amounts : x >= 0} \cup {0, LargeEmission} :
        LET res == EmitMoney(repo, amt)
            again == EmitMoney(res.repo, LargeEmission)
        IN  IF repo.heap[repo.EmissionAccount].Status = Blocked
              THEN res = Fail(repo, AccountIsBlockedError)
            ELSE /\ res.err = NoError
                 /\ res.repo.heap[repo.EmissionAccount].Balance
                       = repo.heap[repo.EmissionAccount].Balance + round(amt)
                 /\ again.err = NoError
                 /\ again.repo.heap[repo.EmissionAccount].Balance
                       = repo.heap[repo.EmissionAccount].Balance + round(amt)
                          + LargeEmission

\* the emission account holds emitted money and is Blocked: EmitMoney is
\* refused, and after ActivateAccount a large emission succeeds
C26_Witness ==
    /\ lastMove = "EmitMoney"
    /\ repo.heap[repo.EmissionAccount].Status = Blocked
    /\ repo.heap[repo.EmissionAccount].Balance > 0
    /\ EmitMoney(repo, LargeEmission).err = AccountIsBlockedError
    /\ EmitMoney(ActivateAccount(repo, EmissionIbanText).repo, LargeEmission).err
          = NoError

(***************************************************************************)
(* C27: TransferMoneyJson on a text that cannot be decoded (not a JSON     *)
(* object, or the amount given as a string) fails with                     *)
(* MoneyTransferJsonError and leaves the ledger unchanged.  On the text    *)
(* json.Marshal writes for {sender, recipient, amount} it returns the same *)
(* error and leaves the same ledger as TransferMoney(sender, recipient,    *)
(* amount) from the same state; so it does on other decodable texts, for   *)
(* the values they decode to: a missing amount is 0, a null sender is the  *)
(* empty string, an unknown member is ignored, the last of two amounts     *)
(* counts.                                                                 *)
(***************************************************************************)
C27_JsonTransferAsTransfer ==
    /\ \A jsonStr \in TruncatedRequests \cup {RequestWithStringAmount} :
          TransferMoneyJson(repo, jsonStr) = Fail(repo, MoneyTransferJsonError)
    /\ \A recipient \in IbanInputs, amount \in Amounts :
          TransferMoneyJson(repo,
                MarshalMoneyTransfer(EmissionIbanText, recipient, amount))
             = TransferMoney(repo, EmissionIbanText, recipient, amount)
    /\ TransferMoneyJson(repo, RequestWithoutAmount)
          = TransferMoney(repo, EmissionIbanText, DestructionIbanText, 0)
    /\ TransferMoneyJson(repo, RequestWithNullSender)
          = TransferMoney(repo, <<>>, DestructionIbanText, 15)
    /\ TransferMoneyJson(repo, RequestWithUnknownMember)
          = TransferMoney(repo, EmissionIbanText, DestructionIbanText, 15)
    /\ TransferMoneyJson(repo, RequestWithAmountTwice)
          = TransferMoney(repo, EmissionIbanText, DestructionIbanText, 15)

\* a transfer by request text has moved 0.004 from the emission account to an
\* opened account, and a further request for it would do what the transfer does
C27_Witness ==
    /\ lastMove = "TransferMoneyJson"
    /\ \E b \in GeneratedIbans :
          /\ Known(repo, b)
          /\ Value(AccountOf(repo, b)) = 4
          /\ Value(AccountOf(repo, EmissionIbanText)) = -4
          /\ TransferMoneyJson(repo, MarshalMoneyTransfer(EmissionIbanText, b, 4)).err
                = NoError
          /\ TransferMoneyJson(repo, MarshalMoneyTransfer(EmissionIbanText, b, 15)).err
                = InsufficientAccountBalanceError

(***************************************************************************)
(* C28: in every reachable state, and for every order in which the range   *)
(* loop may visit the map, RetrieveAllAccountsAsJson succeeds and returns  *)
(* as many entries as the ledger has accounts: the emission account first, *)
(* the destruction account second, then one entry for each ordinary        *)
(* account and no other; each entry carries the IBAN, Balance, Fractions   *)
(* and status its account has in that state.  (The operation assigns       *)
(* nothing: its result is a value computed from the ledger.)               *)
(***************************************************************************)
C28_ListingCoversEveryAccountOnce ==
    \A order \in KeyOrders(repo.Accounts) :
        LET res == RetrieveAllAccountsAsJson(repo, order)
            ord == Population(repo) \ {repo.EmissionAccount, repo.DestructionAccount}
            EntryOf(e, p) ==
                /\ e.iban = repo.heap[p].Iban
                /\ e.balance = repo.heap[p].Balance
                /\ e.fractions = repo.heap[p].Fractions
                /\ e.status = repo.heap[p].Status
        IN  /\ res.err = NoError
            /\ Len(res.json) = Cardinality(Population(repo))
            /\ Len(res.json) = 2 + Cardinality(ord)
            /\ EntryOf(res.json[1], repo.EmissionAccount)
            /\ EntryOf(res.json[2], repo.DestructionAccount)
            /\ \A p \in ord :
                  Cardinality({i \in 3..Len(res.json) : EntryOf(res.json[i], p)}) = 1
            /\ \A i \in 3..Len(res.json) : \E p \in ord : EntryOf(res.json[i], p)

\* two ordinary accounts are open, one of them Blocked, and the emission
\* account holds money: the listing has four entries, two of them ordinary
C28_Witness ==
    /\ Cardinality(Population(repo)) = 4
    /\ lastMove = "EmitMoney"
    /\ repo.heap[repo.EmissionAccount].Balance > 0
    /\ \E b \in GeneratedIbans :
          Known(repo, b) /\ AccountOf(repo, b).Status = Blocked
    /\ \E order \in KeyOrders(repo.Accounts) :
          /\ Len(RetrieveAllAccountsAsJson(repo, order).json) = 4
          /\ RetrieveAllAccountsAsJson(repo, order).json[3].status = Blocked
          /\ RetrieveAllAccountsAsJson(repo, order).json[4].status = Active

(***************************************************************************)
(* C29: a freshly constructed ledger holds exactly the two special         *)
(* accounts, each Active with Balance and Fractions zero.  In every step   *)
(* after that every account of the ledger stays in it with the IBAN it has *)
(* and every IBAN of the map keeps naming the same account; and a step     *)
(* that changes the set of accounts is a successful OpenAccount, which     *)
(* adds one account.                                                       *)
(***************************************************************************)
C29_AccountsOnlyGrow ==
    /\ Population(repo) = {repo.EmissionAccount, repo.DestructionAccount}
    /\ Cardinality(Population(repo)) = 2
    /\ \A p \in Population(repo) :
          /\ repo.heap[p].Status = Active
          /\ repo.heap[p].Balance = 0
          /\ repo.heap[p].Fractions = 0
    /\ [][ /\ Population(repo) \subseteq Population(repo')
           /\ \A p \in Population(repo) : repo'.heap[p].Iban = repo.heap[p].Iban
           /\ \A k \in DOMAIN repo.Accounts :
                 k \in DOMAIN repo'.Accounts /\ repo'.Accounts[k] = repo.Accounts[k]
           /\ Population(repo') # Population(repo)
                => /\ \E res \in OpenAccount(repo) :
                         res.err = NoError /\ repo' = res.repo
                   /\ Cardinality(Population(repo'))
                         = Cardinality(Population(repo)) + 1 ]_vars

\* two accounts have been opened one after the other, money was destructed
\* since and an account is Blocked: all four accounts are still there
C29_Witness ==
    /\ Cardinality(Population(repo)) = 4
    /\ lastMove = "DestructMoney"
    /\ \E p \in Population(repo) : repo.heap[p].Status = Blocked
    /\ \A g \in GeneratedIbans : Known(repo, g) /\ AccountOf(repo, g).Iban = g

IsAlphanumeric(c) == IsDigit(c) \/ IsUpperLetter(c)

\* what c stands for in the numeric form: the digit itself, A = 10 ... Z = 35
CharValue(c) ==
    IF IsDigit(c) THEN IndexIn(DigitChars, c) - 1 ELSE IndexIn(LetterChars, c) + 9

\* the number of digits c takes in the numeric form
CharWidth(c) == IF IsDigit(c) THEN 1 ELSE 2

RECURSIVE Pow10Mod97(_)
\* 10^n modulo 97
Pow10Mod97(n) == IF n = 0 THEN 1 ELSE (10 * Pow10Mod97(n - 1)) % 97

RECURSIVE NumericTail(_, _)
\* the numeric form of s from position i on: the number of its digits and
\* its decimal value modulo 97, each character weighing 10 to the number of
\* digits that follow it
NumericTail(s, i) ==
    IF i > Len(s) THEN [digits |-> 0, value |-> 0]
    ELSE LET rest == NumericTail(s, i + 1)
         IN  [digits |-> rest.digits + CharWidth(s[i]),
              value |-> (CharValue(s[i]) * Pow10Mod97(rest.digits) + rest.value) % 97]

\* s is 28 characters from [A-Z0-9] whose numeric form is congruent to 1
\* modulo 97
IsChecksummedIban(s) ==
    /\ Len(s) = IbanLength
    /\ \A i \in 1..Len(s) : IsAlphanumeric(s[i])
    /\ NumericTail(s, 1).value = 1

(***************************************************************************)
(* C31: every IBAN returned by GenerateValidBelarusianIban, and so every   *)
(* IBAN that OpenAccount assigns to an account, is accepted by IsValidIban *)
(* and is 28 characters from [A-Z0-9] whose numeric form is congruent to 1 *)
(* modulo 97.  Checked candidate by candidate: the IBAN the loop of        *)
(* GenerateValidBelarusianIban handed to OpenAccount, and the IBAN of      *)
(* every ordinary account of the ledger.                                   *)
(***************************************************************************)
C31_GeneratedIbansValid ==
    /\ \A g \in GenerateValidBelarusianIban :
          g.err = NoError => IsValidIban(g.iban) /\ IsChecksummedIban(g.iban)
    /\ \A t \in Threads :
          thr[t].loc.iban # <<>>
            => IsValidIban(thr[t].loc.iban) /\ IsChecksummedIban(thr[t].loc.iban)
    /\ \A p \in Population(repo) :
          repo.heap[p].Type = Ordinary
            => /\ IsValidIban(repo.heap[p].Iban)
               /\ IsChecksummedIban(repo.heap[p].Iban)

\* OpenAccount has stored the first ordinary account of main's ledger under
\* an IBAN that it got after a candidate with another checksum had been drawn
\* and rejected
C31_Witness ==
    \E t \in Threads :
        /\ thr[t].pc = "return"
        /\ thr[t].ret.err = NoError
        /\ thr[t].loc.attempts >= 2
        /\ opened.count = 1
        /\ Cardinality(Population(repo)) = 3
        /\ repo.heap[repo.DestructionAccount].Iban = StripSpaces(DestructionIbanText)
        /\ \E b \in BbanChoices : ~IsChecksummedIban(GenerateBelarusianIban(b).iban)
        /\ repo.heap[thr[t].ret.acc].Iban = thr[t].loc.iban
        /\ IsChecksummedIban(thr[t].loc.iban)

RECURSIVE WithoutSpacesFrom(_, _)
\* the characters of s from position i on that are not spaces, in their order
WithoutSpacesFrom(s, i) ==
    IF i > Len(s) THEN <<>>
    ELSE IF s[i] = " " THEN WithoutSpacesFrom(s, i + 1)
    ELSE <<s[i]>> \o WithoutSpacesFrom(s, i + 1)

(***************************************************************************)
(* C32: IsValidIban(id) returns true exactly when id with its spaces       *)
(* removed has length 28, consists only of characters in [A-Z0-9] and has  *)
(* a numeric form (A = 10 ... Z = 35, digits unchanged) congruent to 1     *)
(* modulo 97; for every other input it returns false, and it returns a     *)
(* truth value for every input.                                            *)
(***************************************************************************)
C32_IsValidIbanExactly ==
    (thr[CodecCaller].pc = "return" /\ thr[CodecCaller].op = "IsValidIban")
      => /\ thr[CodecCaller].ret.valid \in BOOLEAN
         /\ thr[CodecCaller].ret.valid
              <=> IsChecksummedIban(WithoutSpacesFrom(thr[CodecCaller].loc.candidate, 1))

\* IsValidIban has accepted an IBAN with letters written in blocks of four or
\* with spaces around it; among the texts it is given there are IBANs of the
\* right form with other check digits, texts of another length and texts with
\* a character outside [A-Z0-9], and it refuses them
C32_Witness ==
    /\ thr[CodecCaller].pc = "return"
    /\ thr[CodecCaller].op = "IsValidIban"
    /\ thr[CodecCaller].ret.valid
    /\ \E i \in 1..Len(thr[CodecCaller].loc.candidate) :
          thr[CodecCaller].loc.candidate[i] = " "
    /\ \E s \in CheckDigitTexts :
          /\ \E i \in 5..Len(s) : IsUpperLetter(s[i])
          /\ IsValidIban(s)
    /\ \E s \in CheckDigitTexts :
          /\ \A i \in 1..Len(s) : IsAlphanumeric(s[i])
          /\ ~IsValidIban(s)
    /\ \E s \in MalformedTexts :
          /\ Len(WithoutSpacesFrom(s, 1)) # IbanLength
          /\ ~IsValidIban(s)
    /\ \E s \in MalformedTexts :
          /\ Len(WithoutSpacesFrom(s, 1)) = IbanLength
          /\ \E i \in 1..Len(s) : s[i] # " " /\ ~IsAlphanumeric(s[i])
          /\ ~IsValidIban(s)

\* s consists of the digits 0..9 only
IsDigitString(s) == \A i \in 1..Len(s) : IsDigit(s[i])

RECURSIVE DecimalValue(_, _)
\* the number that the first n digits of s write in decimal
DecimalValue(s, n) ==
    IF n = 0 THEN 0 ELSE 10 * DecimalValue(s, n - 1) + CharValue(s[n])

\* the longest digit string whose decimal value is computed as an integer
MaxDecimalDigits == 9

(***************************************************************************)
(* C33: for every digit string s, Mod97(s) equals the decimal value of s   *)
(* modulo 97, and CalculateIbanCheckDigits(s) is 98 minus that value       *)
(* written as exactly two digits, in the range 02 to 98; so every          *)
(* candidate of GenerateBelarusianIban is exactly 28 characters long: BY,  *)
(* the two check digits and the 24 digits drawn.                           *)
(***************************************************************************)
C33_Mod97AndCheckDigits ==
    LET c == thr[CodecCaller]
        s == c.loc.candidate
    IN  c.pc = "return" =>
          /\ (c.op = "Mod97" /\ IsDigitString(s))
               => /\ c.ret.remainder = NumericTail(s, 1).value
                  /\ Len(s) <= MaxDecimalDigits
                       => c.ret.remainder = DecimalValue(s, Len(s)) % 97
          /\ (c.op = "CalculateIbanCheckDigits" /\ IsDigitString(s))
               => /\ Len(c.ret.str) = 2
                  /\ IsDigitString(c.ret.str)
                  /\ DecimalValue(c.ret.str, 2) = 98 - NumericTail(s, 1).value
                  /\ DecimalValue(c.ret.str, 2) \in 2..98
          /\ c.op = "GenerateBelarusianIban"
               => /\ c.ret.err = NoError
                  /\ Len(c.ret.str) = IbanLength
                  /\ SubSeq(c.ret.str, 1, 2) = <<"B", "Y">>
                  /\ IsDigitString(SubSeq(c.ret.str, 3, 4))
                  /\ SubSeq(c.ret.str, 5, Len(c.ret.str)) = s

\* CalculateIbanCheckDigits has returned 02, the least check digits, padded
\* with a zero, for a numeric form of more digits than an integer holds
C33_Witness ==
    /\ thr[CodecCaller].pc = "return"
    /\ thr[CodecCaller].op = "CalculateIbanCheckDigits"
    /\ IsDigitString(thr[CodecCaller].loc.candidate)
    /\ Len(thr[CodecCaller].loc.candidate) > MaxDecimalDigits
    /\ thr[CodecCaller].ret.str = <<"0", "2">>

(***************************************************************************)
(* C34: in every reachable state every account's fractional remainder is a *)
(* sub-cent amount: the absolute value of Fractions is less than one cent  *)
(* after any sequence of emissions, destructions and transfers.            *)
(* Violated: Add and Deduct add each call's remainder to Fractions and     *)
(* nothing ever carries a whole cent from Fractions into Balance.          *)
(***************************************************************************)
C34_FractionsBelowCent ==
    \A p \in Population(repo) : Abs(repo.heap[p].Fractions) < Cent

(***************************************************************************)
(* C35: in every reachable state every entry of the accounts map is        *)
(* non-nil and stored under its own IBAN (the key equals the Iban field of *)
(* the account, which has no spaces), so no operation, whatever its        *)
(* arguments, returns the IbanMismatch error or meets a nil account.       *)
(***************************************************************************)
C35_MapKeyedByOwnIban ==
    /\ \A k \in DOMAIN repo.Accounts :
          /\ repo.Accounts[k] # Nil
          /\ repo.Accounts[k] \in DOMAIN repo.heap
          /\ repo.heap[repo.Accounts[k]].Iban = k
          /\ \A i \in 1..Len(k) : k[i] # " "
    /\ LET errs ==
               {EmitMoney(repo, amt).err : amt \in Amounts}
               \cup {DestructMoney(repo, iban, amt).err :
                        iban \in IbanInputs, amt \in Amounts}
               \cup {TransferMoney(repo, a, b, amt).err :
                        a \in IbanInputs, b \in IbanInputs, amt \in Amounts}
               \cup {TransferMoneyJson(repo, jsonStr).err : jsonStr \in JsonRequests}
               \cup {BlockAccount(repo, iban).err : iban \in IbanInputs}
               \cup {ActivateAccount(repo, iban).err : iban \in IbanInputs}
               \cup {res.err : res \in OpenAccount(repo)}
       IN  AccountIbanMismatchError \notin errs /\ Panic \notin errs

\* the ledger has the two special accounts under two keys and an opened
\* account under a third, money has moved, and the operations are called with
\* IBANs written with spaces, which are no keys of the map
C35_Witness ==
    /\ lastMove = "TransferMoney"
    /\ Cardinality(DOMAIN repo.Accounts) = 3
    /\ \E g \in GeneratedIbans :
          /\ g \in DOMAIN repo.Accounts
          /\ Value(AccountOf(repo, g)) > 0
    /\ EmissionIbanText \notin DOMAIN repo.Accounts
    /\ BlockAccount(repo, EmissionIbanText).err = NoError

(***************************************************************************)
(* C36: TransferMoney(s, r, amt) succeeds exactly when s is known and      *)
(* Active, amt >= 0, the Balance of s is at least amt rounded to cents,    *)
(* and r is known and Active.  The types of the two accounts do not enter  *)
(* the condition: the emission and the destruction account send and        *)
(* receive like an ordinary account.                                       *)
(***************************************************************************)
C36_TransferSucceedsExactlyWhen ==
    \A s \in IbanInputs, r \in IbanInputs, amt \in Amounts :
        LET res == TransferMoney(repo, s, r, amt)
        IN  res.err = NoError
              <=> /\ Known(repo, s)
                  /\ AccountOf(repo, s).Status = Active
                  /\ amt >= 0
                  /\ \E c \in {round(amt)} :
                        IsNearestCent(c, amt) /\ AccountOf(repo, s).Balance >= c
                  /\ Known(repo, r)
                  /\ AccountOf(repo, r).Status = Active

\* the emission account holds two cents: it can send them to the destruction
\* account and to an opened account, the opened account and the destruction
\* account can send nothing of that size to it, and a Blocked account
\* receives nothing
C36_Witness ==
    /\ lastMove = "EmitMoney"
    /\ repo.heap[repo.EmissionAccount].Balance = round(15)
    /\ repo.heap[repo.DestructionAccount].Iban = StripSpaces(DestructionIbanText)
    /\ TransferMoney(repo, EmissionIbanText, DestructionIbanText, 15).err = NoError
    /\ TransferMoney(repo, DestructionIbanText, EmissionIbanText, 4).err = NoError
    /\ TransferMoney(repo, DestructionIbanText, EmissionIbanText, 15).err
          = InsufficientAccountBalanceError
    /\ \E g \in GeneratedIbans, h \in GeneratedIbans :
          /\ Known(repo, g)
          /\ AccountOf(repo, g).Type = Ordinary
          /\ TransferMoney(repo, EmissionIbanText, g, 15).err = NoError
          /\ TransferMoney(repo, g, EmissionIbanText, 4).err = NoError
          /\ Known(repo, h)
          /\ AccountOf(repo, h).Status = Blocked
          /\ TransferMoney(repo, EmissionIbanText, h, 15).err = AccountIsBlockedError

RECURSIVE SumOfBalance(_, _)
\* the sum of Balance over the accounts at the pointers ps
SumOfBalance(r, ps) ==
    IF ps = {} THEN 0
    ELSE LET p == CHOOSE x \in ps : TRUE
         IN  r.heap[p].Balance + SumOfBalance(r, ps \ {p})

RECURSIVE SumOfFractions(_, _)
\* the sum of Fractions over the accounts at the pointers ps
SumOfFractions(r, ps) ==
    IF ps = {} THEN 0
    ELSE LET p == CHOOSE x \in ps : TRUE
         IN  r.heap[p].Fractions + SumOfFractions(r, ps \ {p})

\* the amount of the DestructMoney or TransferMoney that has debited an
\* account and not yet credited the other
InFlight ==
    IF \E t \in Threads : thr[t].pc = "credit"
      THEN thr[CHOOSE t \in Threads : thr[t].pc = "credit"].loc.amount
    ELSE 0

(***************************************************************************)
(* C37: after any sequence or interleaving of operations the sum of        *)
(* Balance over all accounts equals the sum of the cent-rounded amounts of *)
(* all successful EmitMoney calls, and the sum of Fractions over all       *)
(* accounts equals the sum of their rounding remainders: only EmitMoney    *)
(* changes the total, DestructMoney and TransferMoney only move value.     *)
(* Inside a DestructMoney or TransferMoney, between its debit and its      *)
(* credit, the sums are short of exactly the amount being moved.           *)
(***************************************************************************)
C37_TotalIsWhatWasEmitted ==
    /\ SumOfBalance(repo, Population(repo)) = emitted.rounded - round(InFlight)
    /\ SumOfFractions(repo, Population(repo))
          = emitted.fractions - (InFlight - round(InFlight))
    /\ (\A t \in Threads : thr[t].pc # "credit") => InFlight = 0

\* after an emission with a remainder a transfer has moved money with a
\* remainder to an opened account, and every call has returned
C37_Witness ==
    /\ \A t \in Threads : thr[t].pc = "idle"
    /\ emitted.rounded > 0
    /\ emitted.fractions # 0
    /\ moves = 2
    /\ repo.heap[repo.EmissionAccount].Balance = 0
    /\ \E p \in Population(repo) :
          /\ repo.heap[p].Type = Ordinary
          /\ repo.heap[p].Balance = emitted.rounded
          /\ repo.heap[p].Fractions # 0

(***************************************************************************)
(* C38: while an account is Blocked its Balance and Fractions never        *)
(* change: no step of the ledger, whether an EmitMoney, a DestructMoney or *)
(* a TransferMoney, debits or credits an account whose status is Blocked,  *)
(* so an account keeps its Balance and its Fractions from the BlockAccount *)
(* on it to the next ActivateAccount on it.                                *)
(***************************************************************************)
C38_BlockedAccountUntouched ==
    [][\A p \in Population(repo) :
          repo.heap[p].Status = Blocked
            => /\ p \in Population(repo')
               /\ repo'.heap[p].Balance = repo.heap[p].Balance
               /\ repo'.heap[p].Fractions = repo.heap[p].Fractions]_vars

\* the emission account and an opened account are Blocked and hold money,
\* the destruction account is Active, and every operation that would debit
\* or credit a Blocked account is refused
C38_Witness ==
    /\ lastMove = "TransferMoney"
    /\ repo.heap[repo.EmissionAccount].Status = Blocked
    /\ repo.heap[repo.EmissionAccount].Balance > 0
    /\ repo.heap[repo.DestructionAccount].Status = Active
    /\ EmitMoney(repo, 15).err = AccountIsBlockedError
    /\ DestructMoney(repo, EmissionIbanText, 15).err = AccountIsBlockedError
    /\ \E g \in GeneratedIbans :
          /\ Known(repo, g)
          /\ AccountOf(repo, g).Status = Blocked
          /\ Value(AccountOf(repo, g)) > 0
          /\ TransferMoney(repo, g, DestructionIbanText, 4).err = AccountIsBlockedError
          /\ DestructMoney(repo, g, 4).err = AccountIsBlockedError
          /\ TransferMoney(repo, DestructionIbanText, g, 4).err = AccountIsBlockedError

(***************************************************************************)
(* C39: in every reachable state, mid-operation states included, every     *)
(* account's Balance is a whole number of cents; each Add and Deduct       *)
(* changes Balance by the amount rounded to the nearest cent and nothing   *)
(* else, and changes Fractions by the whole sub-cent remainder, so that    *)
(* no part of a remainder comes back into Balance.                         *)
(***************************************************************************)
C39_BalanceInWholeCents ==
    \A p \in Population(repo) :
        LET acc == repo.heap[p]
        IN  /\ acc.Balance % Cent = 0
            /\ \A amt \in {x \in Amounts : x >= 0} :
                  LET added == Add(acc, amt)
                      deducted == Deduct(acc, amt)
                  IN  /\ IsNearestCent(added.Balance - acc.Balance, amt)
                      /\ added.Fractions - acc.Fractions
                            = amt - (added.Balance - acc.Balance)
                      /\ IsNearestCent(acc.Balance - deducted.Balance, amt)
                      /\ acc.Fractions - deducted.Fractions
                            = amt - (acc.Balance - deducted.Balance)
                      /\ added.Balance % Cent = 0
                      /\ deducted.Balance % Cent = 0

\* 0.015 was emitted, which put two cents into Balance and the remainder of
\* minus half a cent into Fractions; a transfer of 0.015 has debited the
\* emission account of both and has not yet credited the recipient
C39_Witness ==
    \E t \in Threads :
        /\ thr[t].pc = "credit"
        /\ thr[t].op = "TransferMoney"
        /\ thr[t].loc.amount = 15
        /\ thr[t].loc.sAcc = repo.EmissionAccount
        /\ thr[t].loc.rAcc # repo.EmissionAccount
        /\ repo.heap[repo.EmissionAccount].Balance = 0
        /\ repo.heap[repo.EmissionAccount].Fractions = 0
        /\ emitted = [rounded |-> 2 * Cent, fractions |-> 15 - 2 * Cent]

=============================================================================
